---- MODULE Spec2Model ----
(***************************************************************************)
(* Course-Genius: the streaming course generator generateCourseStream in   *)
(* its three adapter variants                                              *)
(*   "OR"  OpenRouterService.generateCourseStream (openRouterService.ts)   *)
(*   "GS"  generateCourseStream of geminiService.ts (search grounded)      *)
(*   "P1"  generateCourseStream of the earlier Gemini adapter (part_001)   *)
(* the retry executor OpenRouterService.retryApiCall, the codec            *)
(* OpenRouterService.safeJsonParse with cleanJson, the factory             *)
(* createAIService, the model catalog (getAvailableModels,                 *)
(* getMaxOutputTokens, getTokenLimit), getModuleSchema, and the component  *)
(* App that consumes the generator of geminiService.ts.                    *)
(*                                                                         *)
(* One step of the model is one run of the JavaScript event loop: from the *)
(* resumption of the async generator (a next() of the consumer, a settled  *)
(* promise, a fired timer) up to its next await or yield.                  *)
(* Sequences are 1-based: module index i of the model is index i-1 of the  *)
(* source.                                                                 *)
(***************************************************************************)
EXTENDS Integers, Sequences, FiniteSets, TLC

\* ---------------------------------------------------------------- bounds
MaxModules == 2
MaxLessons == 2
MaxRetriesBound == 4
MaxCatalog == 45
MaxRuns == 2
MaxCalls == 4

\* ------------------------------------------------------- program constants
DefaultMaxRetries == 3
OutlineBaseDelay == 1000
ModuleBaseDelay == 2000
DefaultMaxOutputTokens == 8192
OutlineTokenCap == 4000
ModuleBufferCap == 2048
ModuleTokenFloor == 8192
PreviewLength == 1000
FallbackFloor == 8192
FallbackCeiling == 32768
ContextShare == 4
MaxListed == 25
MinContextLength == 32000
OutlineShare == 10
ModulesShare == 90

\* --------------------------------------------------------------- the data
Absent == "<absent>"
None == [kind |-> "none"]

Outlining == "OUTLINING"
GeneratingModules == "GENERATING_MODULES"
GeneratingImages == "GENERATING_IMAGES"
Done == "DONE"
Idle == "IDLE"

Variants == {"OR", "GS", "P1"}

\* the titles an outline can carry, in order
AllTitles == <<"A", "B", "C", "D">>
TitleList(k) == SubSeq(AllTitles, 1, k)

\* the image bytes the image endpoint returns for lesson l of a module
AllBytes == <<"b1", "b2", "b3", "b4">>
ImageBytes(l) == AllBytes[l]

\* what the model can put in a lesson's imagePrompt
PromptValues == {Absent, "", " ", "p"}

\* String.prototype.trim on the prompt values
Trim(s) == IF s = " " THEN "" ELSE s

\* JavaScript truthiness of an optional string
Truthy(s) == s # Absent /\ s # ""

Lesson(p) == [imagePrompt |-> p, imageBase64 |-> Absent]

\* the lessons the model writes for a module, as far as their imagePrompt
\* goes; within one run it writes every module to the same plan
LessonLists ==
    UNION {[1..n -> {Lesson(p) : p \in PromptValues}] : n \in 1..MaxLessons}

\* the plans of one lesson: the OpenRouter adapter passes the lessons on
\* unread, so its runs are taken over these
OneLessonLists == {ls \in LessonLists : Len(ls) = 1}

\* the JSON values a well-formed outline response parses to
OutlineValues ==
    {[kind |-> "outline", hasTitles |-> TRUE, moduleTitles |-> TitleList(k),
      hasSources |-> FALSE, sources |-> <<>>] : k \in 0..MaxModules}
    \cup {[kind |-> "outline", hasTitles |-> FALSE, moduleTitles |-> <<>>,
           hasSources |-> FALSE, sources |-> <<>>]}

\* the JSON values a well-formed module response parses to, when the module
\* was requested under the title t and the model writes its lessons to the
\* plan ls: the model echoes t or invents a title.  prompted is not part of
\* the JSON: it records the title the request's prompt named
ModuleValues(t, ls) ==
    {[kind |-> "module", title |-> tt, lessons |-> ls, prompted |-> t] :
        tt \in {t, "X"}}

\* what a text-generation request can settle with
FailedTexts == {[kind |-> k, value |-> None] :
                  k \in {"reject", "empty", "blank", "garbage"}}
OutlineResponses == FailedTexts \cup
    {[kind |-> "ok", value |-> v] : v \in OutlineValues}
ModuleResponses(t, ls) == FailedTexts \cup
    {[kind |-> "ok", value |-> v] : v \in ModuleValues(t, ls)}

\* what an image-generation request can settle with
ImageOutcomes == {"ok", "reject", "noimages", "emptybytes"}

\* the models a run can be configured with, and the catalog's answer
ModelIds == {"anthropic/claude-3-haiku"}

Error(cause, a) == [kind |-> "error", cause |-> cause, attempt |-> a]

Update(step, payload, m, l) ==
    [step |-> step, hasPayload |-> payload # None, payload |-> payload,
     mod |-> m, lesson |-> l]

\* the prompt of a text-generation request, as far as module titles go: the
\* title the module is asked for, the titles given as previously covered,
\* and every title that occurs anywhere in the prompt
NoPrompt == [moduleTitle |-> Absent, previous |-> <<>>, mentioned |-> {}]

Request(kind, m, l, a, tokens) ==
    [kind |-> kind, mod |-> m, lesson |-> l, attempt |-> a, maxTokens |-> tokens,
     prompt |-> NoPrompt]

WithPrompt(r, p) == [r EXCEPT !.prompt = p]

Range(seq) == {seq[n] : n \in 1..Len(seq)}

\* modulePrompt of OpenRouterService.generateCourseStream: the topic, the
\* course description and objectives, and the title of this module
ORModulePrompt(titles, idx) ==
    [moduleTitle |-> titles[idx], previous |-> <<>>, mentioned |-> {titles[idx]}]

\* modulePrompt of geminiService.ts: allModuleTitlesString, the title of
\* this module, and previousModuleTitles = moduleTitles.slice(0, index)
GSModulePrompt(titles, idx) ==
    [moduleTitle |-> titles[idx], previous |-> SubSeq(titles, 1, idx - 1),
     mentioned |-> Range(titles)]

\* modulePrompt of part_001: the topic and the title of this module
P1ModulePrompt(titles, idx) ==
    [moduleTitle |-> titles[idx], previous |-> <<>>, mentioned |-> {titles[idx]}]

\* the groundingChunks a search-grounded response can carry: each chunk is
\* the uri of its web source, or Absent when it has none
GroundingChunkLists == {<<>>, <<"u1", Absent, "u1">>}

\* ------------------------------------------- cleanJson and safeJsonParse
Min(a, b) == IF a < b THEN a ELSE b
Max(a, b) == IF a > b THEN a ELSE b

\* A text is the sequence of its characters; a markdown fence is one element
\* of it: FenceJson the opening ```json, Fence the bare ```.
LBrace == "{"
RBrace == "}"
LBracket == "["
RBracket == "]"
Quote == "\""
Backslash == "\\"
Comma == ","
Colon == ":"
Space == " "
Newline == "\n"
FenceJson == "<fence json>"
Fence == "<fence>"

\* the characters \s matches and trim() removes
Whitespace == {Space, Newline}

RECURSIVE SkipWs(_, _)
\* the first position from p on that holds no whitespace
SkipWs(s, p) ==
    IF p <= Len(s) /\ s[p] \in Whitespace THEN SkipWs(s, p + 1) ELSE p

RECURSIVE SkipWsBack(_, _)
SkipWsBack(s, p) ==
    IF p >= 1 /\ s[p] \in Whitespace THEN SkipWsBack(s, p - 1) ELSE p

\* String.prototype.trim
TrimText(s) ==
    IF SkipWs(s, 1) > Len(s) THEN <<>>
    ELSE SubSeq(s, SkipWs(s, 1), SkipWsBack(s, Len(s)))

\* the first position from p on that holds an element of cs, 0 if none
FirstOf(s, cs, p) ==
    LET ps == {q \in p..Len(s) : s[q] \in cs}
    IN  IF ps = {} THEN 0 ELSE CHOOSE q \in ps : \A r \in ps : q <= r

\* the last position that holds c, 0 if none
LastIndexOf(s, c) ==
    LET ps == {q \in 1..Len(s) : s[q] = c}
    IN  IF ps = {} THEN 0 ELSE CHOOSE q \in ps : \A r \in ps : q >= r

\* text.match(/```json\s*([\s\S]*?)\s*```/): the text between the first
\* ```json and the next fence, trimmed; the text itself when there is no
\* such match or nothing is between them
FenceBody(text) ==
    LET a == FirstOf(text, {FenceJson}, 1)
        b == FirstOf(text, {FenceJson, Fence}, a + 1)
    IN  IF a = 0 \/ b = 0 \/ TrimText(SubSeq(text, a + 1, b - 1)) = <<>>
        THEN text
        ELSE TrimText(SubSeq(text, a + 1, b - 1))

RECURSIVE MatchingBrace(_, _, _, _, _)
\* the scan for the closing brace: endIndex, 0 when the scan runs off the
\* text (the -1 of the source)
MatchingBrace(s, p, braceCount, inString, escaped) ==
    IF p > Len(s) THEN 0
    ELSE IF escaped THEN MatchingBrace(s, p + 1, braceCount, inString, FALSE)
    ELSE IF s[p] = Backslash
         THEN MatchingBrace(s, p + 1, braceCount, inString, TRUE)
    ELSE IF s[p] = Quote
         THEN MatchingBrace(s, p + 1, braceCount, ~inString, FALSE)
    ELSE IF ~inString /\ s[p] = LBrace
         THEN MatchingBrace(s, p + 1, braceCount + 1, inString, FALSE)
    ELSE IF ~inString /\ s[p] = RBrace
         THEN IF braceCount - 1 = 0 THEN p
              ELSE MatchingBrace(s, p + 1, braceCount - 1, inString, FALSE)
    ELSE MatchingBrace(s, p + 1, braceCount, inString, FALSE)

RECURSIVE DropTrailingCommas(_, _)
\* .replace(/,(\s*[}\]])/g, '$1') from position p on: a comma goes when
\* the next character that is no whitespace is } or ]
DropTrailingCommas(s, p) ==
    IF p > Len(s) THEN <<>>
    ELSE LET q == SkipWs(s, p + 1)
         IN  IF s[p] = Comma /\ q <= Len(s) /\ s[q] \in {RBrace, RBracket}
             THEN DropTrailingCommas(s, p + 1)
             ELSE <<s[p]>> \o DropTrailingCommas(s, p + 1)

RemoveTrailingCommas(s) == DropTrailingCommas(s, 1)

\* the characters [^",:}\]] does not match
QuoteRunStops == {Quote, Comma, Colon, RBrace, RBracket}

\* .replace(/([^\\])"([^",:}\]]+)"([^",:}\]]+)"/g, '$1"$2\\"$3"') from
\* position p on
RECURSIVE FixUnescapedQuotes(_, _)
FixUnescapedQuotes(s, p) ==
    IF p > Len(s) THEN <<>>
    ELSE LET stop(q) == LET e == FirstOf(s, QuoteRunStops, q)
                        IN  IF e = 0 THEN Len(s) + 1 ELSE e
             q1 == stop(p + 2)
             q2 == stop(q1 + 1)
         IN  IF /\ s[p] # Backslash
                /\ p + 1 <= Len(s) /\ s[p + 1] = Quote
                /\ q1 > p + 2 /\ q1 <= Len(s) /\ s[q1] = Quote
                /\ q2 > q1 + 1 /\ q2 <= Len(s) /\ s[q2] = Quote
             THEN SubSeq(s, p, q1 - 1) \o <<Backslash, Quote>>
                  \o SubSeq(s, q1 + 1, q2) \o FixUnescapedQuotes(s, q2 + 1)
             ELSE <<s[p]>> \o FixUnescapedQuotes(s, p + 1)

cleanJson(text) ==
    LET t == FenceBody(text)
        startIndex == FirstOf(t, {LBrace}, 1)
        endIndex == MatchingBrace(t, startIndex, 0, FALSE, FALSE)
    IN  IF startIndex = 0 THEN TrimText(t)
        ELSE IF endIndex # 0
        THEN TrimText(FixUnescapedQuotes(
                 RemoveTrailingCommas(SubSeq(t, startIndex, endIndex)), 1))
        ELSE TrimText(t)

\* JSON.parse, on texts of this alphabet: a value is a string, the number 1,
\* an object or an array; in a string a backslash escapes a quote or a
\* backslash and a raw line break is not allowed.  Each operator gives the
\* position after what it parsed at p, 0 when it cannot
RECURSIVE ParseString(_, _)
ParseString(s, p) ==
    IF p > Len(s) THEN 0
    ELSE IF s[p] = Quote THEN p + 1
    ELSE IF s[p] = Backslash
         THEN IF p + 1 <= Len(s) /\ s[p + 1] \in {Quote, Backslash}
              THEN ParseString(s, p + 2) ELSE 0
    ELSE IF s[p] = Newline THEN 0
    ELSE ParseString(s, p + 1)

RECURSIVE ParseValue(_, _)
RECURSIVE ParseMembers(_, _)
RECURSIVE ParseElements(_, _)

\* the members of an object from p on, up to and including its }
ParseMembers(s, p) ==
    LET k == IF p <= Len(s) /\ s[p] = Quote THEN ParseString(s, p + 1) ELSE 0
        c == SkipWs(s, k)
        v == IF k # 0 /\ c <= Len(s) /\ s[c] = Colon
             THEN ParseValue(s, c + 1) ELSE 0
        d == SkipWs(s, v)
    IN  IF v = 0 \/ d > Len(s) THEN 0
        ELSE IF s[d] = RBrace THEN d + 1
        ELSE IF s[d] = Comma THEN ParseMembers(s, SkipWs(s, d + 1))
        ELSE 0

\* the elements of an array from p on, up to and including its ]
ParseElements(s, p) ==
    LET v == ParseValue(s, p)
        d == SkipWs(s, v)
    IN  IF v = 0 \/ d > Len(s) THEN 0
        ELSE IF s[d] = RBracket THEN d + 1
        ELSE IF s[d] = Comma THEN ParseElements(s, d + 1)
        ELSE 0

ParseValue(s, p) ==
    LET q == SkipWs(s, p)
    IN  IF q > Len(s) THEN 0
        ELSE IF s[q] = Quote THEN ParseString(s, q + 1)
        ELSE IF s[q] = "1" THEN q + 1
        ELSE IF s[q] = LBrace
             THEN LET m == SkipWs(s, q + 1)
                  IN  IF m <= Len(s) /\ s[m] = RBrace THEN m + 1
                      ELSE ParseMembers(s, m)
        ELSE IF s[q] = LBracket
             THEN LET m == SkipWs(s, q + 1)
                  IN  IF m <= Len(s) /\ s[m] = RBracket THEN m + 1
                      ELSE ParseElements(s, m)
        ELSE 0

\* does JSON.parse(s) return, rather than throw
JsonValid(s) ==
    LET e == ParseValue(s, 1)
    IN  e # 0 /\ SkipWs(s, e) = Len(s) + 1

RECURSIVE JsonCanon(_, _, _, _)
\* the value JSON.parse(s) returns, written without insignificant whitespace
JsonCanon(s, p, inString, escaped) ==
    IF p > Len(s) THEN <<>>
    ELSE IF escaped THEN <<s[p]>> \o JsonCanon(s, p + 1, inString, FALSE)
    ELSE IF inString /\ s[p] = Backslash
         THEN <<s[p]>> \o JsonCanon(s, p + 1, inString, TRUE)
    ELSE IF s[p] = Quote THEN <<s[p]>> \o JsonCanon(s, p + 1, ~inString, FALSE)
    ELSE IF ~inString /\ s[p] \in Whitespace
         THEN JsonCanon(s, p + 1, inString, FALSE)
    ELSE <<s[p]>> \o JsonCanon(s, p + 1, inString, FALSE)

JsonValue(s) == JsonCanon(s, 1, FALSE, FALSE)

RECURSIVE RemoveFences(_, _, _)
\* .replace(/```json\s*/g, '') and .replace(/```\s*/g, ''): the fences tok
\* go, with the whitespace that follows them
RemoveFences(s, tok, p) ==
    IF p > Len(s) THEN <<>>
    ELSE IF s[p] = tok THEN RemoveFences(s, tok, SkipWs(s, p + 1))
    ELSE <<s[p]>> \o RemoveFences(s, tok, p + 1)

\* .replace(/^[^{]*({.*})[^}]*$/s, '$1'): from the first { to the last }
OuterBraces(s) ==
    LET f == FirstOf(s, {LBrace}, 1)
        l == LastIndexOf(s, RBrace)
    IN  IF f # 0 /\ l > f THEN SubSeq(s, f, l) ELSE s

RECURSIVE FixBrokenLines(_, _)
\* .replace(/(['"])\s*:\s*(['"][^'"]*)\n([^'"]*['"])/g, '$1: $2$3') from
\* position p on: the last line break of a string value that follows a key
\* goes (the alphabet has no single quote)
FixBrokenLines(s, p) ==
    IF p > Len(s) THEN <<>>
    ELSE LET c == SkipWs(s, p + 1)
             v == SkipWs(s, c + 1)
             w == FirstOf(s, {Quote}, v + 1)
             nls == {n \in (v + 1)..(w - 1) : s[n] = Newline}
             nl == CHOOSE n \in nls : \A m \in nls : n >= m
         IN  IF /\ s[p] = Quote
                /\ c <= Len(s) /\ s[c] = Colon
                /\ v <= Len(s) /\ s[v] = Quote
                /\ w # 0 /\ nls # {}
             THEN <<Quote, Colon, Space>> \o SubSeq(s, v, nl - 1)
                  \o SubSeq(s, nl + 1, w) \o FixBrokenLines(s, w + 1)
             ELSE <<s[p]>> \o FixBrokenLines(s, p + 1)

\* the 'more aggressive cleaning approach' of safeJsonParse
aggressiveClean(text) ==
    TrimText(FixBrokenLines(RemoveTrailingCommas(OuterBraces(
        RemoveFences(RemoveFences(text, FenceJson, 1), Fence, 1))), 1))

\* text.substring(0, 1000)
Preview(text) == SubSeq(text, 1, Min(Len(text), PreviewLength))

\* what an error message or the console says of a parse: the context label,
\* and the previews of the raw and of the cleaned text if it holds them
NoReport == [context |-> Absent, previews |-> <<>>]

\* the three console.error lines of the first catch block
ParseLog(text, context) ==
    [context |-> context,
     previews |-> <<Preview(text), Preview(cleanJson(text))>>]

\* new Error('Failed to parse JSON response in ' + context + '. The AI model
\* may have generated invalid JSON format.')
ParseError(text, context) ==
    [context |-> context, previews |-> <<>>]

NoParse ==
    [status |-> "none", value |-> <<>>, attempts |-> 0, error |-> NoReport,
     console |-> NoReport]

\* safeJsonParse(text, context): the value JSON.parse returns for the
\* cleaned text, else for the aggressively cleaned text, else it throws
safeJsonParse(text, context) ==
    IF JsonValid(cleanJson(text))
    THEN [status |-> "returned", value |-> JsonValue(cleanJson(text)),
          attempts |-> 1, error |-> NoReport, console |-> NoReport]
    ELSE IF JsonValid(aggressiveClean(text))
    THEN [status |-> "returned", value |-> JsonValue(aggressiveClean(text)),
          attempts |-> 2, error |-> NoReport,
          console |-> ParseLog(text, context)]
    ELSE [status |-> "thrown", value |-> <<>>, attempts |-> 2,
          error |-> ParseError(text, context),
          console |-> ParseLog(text, context)]

\* the texts safeJsonParse is given.  JSON.stringify of a value: an object
\* with a string, a list of strings or a list of objects in it, and objects
\* whose string holds braces, escaped quotes, or a comma before } or ]
Str(cs) == <<Quote>> \o cs \o <<Quote>>
Obj(v) == <<LBrace>> \o Str(<<"a">>) \o <<Colon>> \o v \o <<RBrace>>

StringifiedValues ==
    { Obj(Str(<<"b">>)),
      Obj(<<LBracket>> \o Str(<<"b">>) \o <<Comma>> \o Str(<<"c">>) \o <<RBracket>>),
      Obj(<<LBracket>> \o Obj(<<"1">>) \o <<RBracket>>),
      Obj(Str(<<LBrace, "b", RBrace>>)),
      Obj(Str(<<"b", RBrace>>)),
      Obj(Str(<<"b", Backslash, Quote, "c", Backslash, Quote, "d">>)),
      Obj(Str(<<"b", Comma, RBrace>>)),
      Obj(Str(<<"b", Comma, RBracket>>)) }

\* the same object as a model writes it with a trailing comma
WithTrailingComma(doc) == SubSeq(doc, 1, Len(doc) - 1) \o <<Comma, Space, RBrace>>

\* the same text in a ```json fence
Fenced(t) == <<FenceJson, Newline>> \o t \o <<Newline, Fence>>

\* prose a model puts before and after its JSON
ProseBefore == {<<>>, <<"b", Colon, Space>>, <<"b", LBrace, "c", RBrace, Space>>}
ProseAfter == {<<>>, <<Space, "b">>, <<Space, "b", RBrace>>}

\* texts with no balanced {...} span: no brace at all, an object cut off, and
\* JSON values that are no object
UnbalancedTexts ==
    { <<>>, <<"b", Space, "c">>,
      <<LBrace>> \o Str(<<"a">>) \o <<Colon>> \o Str(<<"b">>),
      <<LBrace>> \o Str(<<"a">>) \o <<Colon, LBrace>> \o Str(<<"b">>) \o <<Colon, "1">>,
      <<LBracket, "1", RBracket>>,
      Str(<<"b">>),
      <<"1">> }

\* the context labels the two stages call safeJsonParse with
CodecContexts ==
    {"course outline generation (attempt 1)", "module \"A\" generation (attempt 2)"}

NoCodecInput ==
    [class |-> "none", doc |-> <<>>, fenced |-> FALSE, commas |-> FALSE,
     before |-> <<>>, after |-> <<>>, text |-> <<>>, context |-> Absent]

CodecInputs ==
    { [class |-> "object", doc |-> d, fenced |-> f, commas |-> c,
       before |-> b, after |-> a, context |-> x,
       text |-> b \o (IF f THEN Fenced(IF c THEN WithTrailingComma(d) ELSE d)
                      ELSE IF c THEN WithTrailingComma(d) ELSE d) \o a] :
        d \in StringifiedValues, f \in BOOLEAN, c \in BOOLEAN,
        b \in ProseBefore, a \in ProseAfter, x \in CodecContexts }
    \cup
    { [class |-> "unbalanced", doc |-> <<>>, fenced |-> FALSE, commas |-> FALSE,
       before |-> <<>>, after |-> <<>>, text |-> t, context |-> x] :
        t \in UnbalancedTexts, x \in CodecContexts }

VARIABLES
    variant,          \* which adapter runs
    generateImages,   \* the generateImages / includeImages argument
    modelId,          \* modelConfig.model
    lessonPlan,       \* the lessons the model writes for a module of this run
    demand,           \* the consumer has called next() and awaits an update
    pc,               \* where the generator (or retryApiCall) is suspended
    updates,          \* the updates yielded so far
    courseOutline,    \* the outline of the run, None before it exists
    i,                \* index of the module being generated
    module,           \* the module being generated, None outside a module
    j,                \* index of the lesson whose image is being generated
    inflight,         \* the upstream requests not yet settled
    nRequests,        \* how many requests of each kind were issued so far
    maxOutputTokens,  \* maxOutputTokens of the run
    attempt,          \* retryApiCall: attempt
    rMax,             \* retryApiCall: maxRetries
    rBase,            \* retryApiCall: baseDelay
    rCtx,             \* retryApiCall: which operation it wraps
    rCalls,           \* retryApiCall: attempt numbers the operation got
    rSettled,         \* retryApiCall: did the operation succeed, per call
    sleeps,           \* retryApiCall: the delays slept, in order
    lastError,        \* retryApiCall: lastError
    rOutcome,         \* retryApiCall: how the call ended, for its caller
    nEmptyOutline,    \* how many outline requests got an empty or blank text
    imgLog,           \* the image requests settled so far, with outcome
    failure,          \* the error that ended the sequence, None if none
    catalog,          \* how the catalog fetch ended, and the models it gave
    provider,         \* createAIService: the provider identifier
    apiKeys,          \* process.env: the credentials of the build
    service,          \* createAIService: the adapter it returned, None if none
    nConstructed,     \* how many adapter constructors were entered
    codecIn,          \* safeJsonParse on its own: the text it is given
    codecOut,         \* safeJsonParse on its own: what it returned or threw
    catIn,            \* getAvailableModels on its own: data.data of the response
    catOut,           \* getAvailableModels on its own: the list it returned
    tokIn,            \* getMaxOutputTokens on its own: modelId and contextLength
    tokOut,           \* the maximum it returned, and the budgets taken from it
    app,              \* App: the React state of the component
    run,              \* App: the locals of the running handleGenerateCourse
    heap,             \* getModuleSchema: the schema objects that exist
    schemas           \* getModuleSchema: what each call so far returned

vars == <<variant, generateImages, modelId, lessonPlan, demand, pc, updates, courseOutline,
          i, module, j, inflight, nRequests, maxOutputTokens, attempt, rMax,
          rBase, rCtx, rCalls, rSettled, sleeps, lastError, rOutcome,
          nEmptyOutline,
          imgLog, failure, catalog, provider, apiKeys, service, nConstructed,
          codecIn, codecOut, catIn, catOut, tokIn, tokOut,
          app, run, heap, schemas>>

\* what no step of a run changes: its arguments, and the codec's text; and
\* with them what only the step that fetches the catalog changes
codecVars == <<codecIn, codecOut>>
serviceVars == <<provider, apiKeys, service, nConstructed>>
listingVars == <<catIn, catOut, tokIn, tokOut>>
appVars == <<app, run>>
schemaVars == <<heap, schemas>>
argVars == <<variant, generateImages, modelId, lessonPlan, codecVars, serviceVars,
             listingVars, appVars, schemaVars>>
inputVars == <<argVars, catalog>>
retryVars == <<attempt, rMax, rBase, rCtx, rCalls, rSettled, sleeps, lastError,
               rOutcome>>

\* ------------------------------------------------------------- the consumer
\* for await (const update of generateCourseStream(...)): the consumer asks
\* for the next update; nothing of the generator runs before it does
Pull ==
    /\ pc \in {"start", "o_begin", "m_loop", "m_begin", "img_yield"}
    /\ ~demand
    /\ demand' = TRUE
    /\ UNCHANGED <<inputVars, pc, updates, courseOutline, i, module, j, inflight,
                   nRequests, maxOutputTokens, retryVars, nEmptyOutline, imgLog,
                   failure>>

\* a generator that runs on without being asked for the next update
ResumedUnasked == TRUE

\* the body of an async generator runs from its start, or from a yield,
\* only when a next() of the consumer is pending
Resumed == demand

\* yield u: the update is handed to the consumer and the generator is
\* suspended until the next next()
Yield(u) ==
    /\ updates' = Append(updates, u)
    /\ demand' = FALSE

\* an error that is swallowed: the sequence ends as if nothing had failed
ThrowSwallowed(e) ==
    /\ pc' = "done"
    /\ failure' = None
    /\ demand' = FALSE

\* the generator throws e: the pending next() rejects, the sequence is over
Throw(e) ==
    /\ pc' = "failed"
    /\ failure' = e
    /\ demand' = FALSE

StageError(stage, cause) == [kind |-> "error", stage |-> stage, cause |-> cause]

\* the generator returns: the pending next() resolves with done
Return ==
    /\ pc' = "done"
    /\ demand' = FALSE

\* an upstream request is sent; pending are the requests still in flight
Issue(rs, pending) ==
    /\ inflight' = pending \cup rs
    /\ nRequests' = [k \in DOMAIN nRequests |->
                       nRequests[k] + Cardinality({r \in rs : r.kind = k})]

\* ------------------------------------------------------------ token budget
\* an outline budget without the 4000 cap
getTokenLimitUncapped(maxOut, isOutline) ==
    IF isOutline
    THEN maxOut \div 2
    ELSE LET buffer == Min(ModuleBufferCap, maxOut \div 10)
         IN  Max(ModuleTokenFloor, maxOut - buffer)

getTokenLimit(maxOut, isOutline) ==
    IF isOutline
    THEN Min(OutlineTokenCap, maxOut \div 2)
    ELSE LET buffer == Min(ModuleBufferCap, maxOut \div 10)
         IN  Max(ModuleTokenFloor, maxOut - buffer)

\* ModelProvider.OpenRouter
OpenRouter == "openrouter"

ModelInfo(id, contextLength, maxOut) ==
    [id |-> id, provider |-> OpenRouter, contextLength |-> contextLength,
     maxOutputTokens |-> maxOut]

\* String.prototype.includes
includes(s, sub) ==
    \E k \in 1..(Len(s) - Len(sub) + 1) : SubSeq(s, k, k + Len(sub) - 1) = sub

\* modelLimits of getMaxOutputTokens
modelLimits ==
    ("anthropic/claude-3.5-sonnet" :> 8192) @@
    ("anthropic/claude-3-sonnet" :> 4096) @@
    ("anthropic/claude-3-haiku" :> 4096) @@
    ("anthropic/claude-3-opus" :> 4096) @@
    ("anthropic/claude-opus-4.1" :> 32000) @@
    ("openai/gpt-4o" :> 16384) @@
    ("openai/gpt-4o-mini" :> 16384) @@
    ("openai/gpt-4-turbo" :> 4096) @@
    ("openai/gpt-4" :> 8192) @@
    ("openai/gpt-5" :> 128000) @@
    ("google/gemini-pro-1.5" :> 65535) @@
    ("google/gemini-2.5-flash-lite" :> 65535) @@
    ("google/gemini-exp-1121" :> 65535) @@
    ("meta-llama/llama-3.1-405b" :> 32768) @@
    ("meta-llama/llama-3.1-70b" :> 32768) @@
    ("meta-llama/llama-3.1-8b" :> 32768) @@
    ("mistralai/mistral-large" :> 32768) @@
    ("mistralai/codestral-2508" :> 32768) @@
    ("qwen/qwen-3-next-80b" :> 32768) @@
    ("deepseek/deepseek-chat" :> 16384)

\* a family fallback that tests gpt-4 before gpt-4o
FamilyLimitGpt4First(id) ==
    IF includes(id, "claude")
    THEN (IF includes(id, "3.5") THEN 8192 ELSE 4096)
    ELSE IF includes(id, "gpt-4") THEN 8192
    ELSE IF includes(id, "gpt-4o") \/ includes(id, "gpt-5") THEN 16384
    ELSE IF includes(id, "gemini") THEN 32768
    ELSE IF includes(id, "llama") THEN 32768
    ELSE IF includes(id, "mistral") THEN 32768
    ELSE 0

\* the fallback on model family patterns, 0 when no pattern matches
FamilyLimit(id) ==
    IF includes(id, "claude")
    THEN (IF includes(id, "3.5") THEN 8192 ELSE 4096)
    ELSE IF includes(id, "gpt-4o") \/ includes(id, "gpt-5") THEN 16384
    ELSE IF includes(id, "gpt-4") THEN 8192
    ELSE IF includes(id, "gemini") THEN 32768
    ELSE IF includes(id, "llama") THEN 32768
    ELSE IF includes(id, "mistral") THEN 32768
    ELSE 0

\* Math.min(32768, Math.max(8192, Math.floor(contextLength / 4)))
ConservativeLimit(contextLength) ==
    Min(FallbackCeiling, Max(FallbackFloor, contextLength \div ContextShare))

getMaxOutputTokens(id, contextLength) ==
    IF id \in DOMAIN modelLimits THEN modelLimits[id]
    ELSE IF FamilyLimit(id) # 0 THEN FamilyLimit(id)
    ELSE ConservativeLimit(contextLength)

\* a slice that keeps one model more
SliceOneMore(models) == SubSeq(models, 1, Min(Len(models), MaxListed + 1))

\* .slice(0, 25)
Slice(models) == SubSeq(models, 1, Min(Len(models), MaxListed))

\* the filter of getAvailableModels: models suitable for course generation
Suitable(model) ==
    /\ model.context_length >= MinContextLength
    /\ ~includes(model.id, "vision")
    /\ ~includes(model.id, "whisper")
    /\ ~includes(model.id, "embedding")

\* data.data.filter(...).slice(0, 25).map(...)
ListModels(data) ==
    LET kept == Slice(SelectSeq(data, Suitable))
    IN  [n \in 1..Len(kept) |->
           ModelInfo(kept[n].id, kept[n].context_length,
                     getMaxOutputTokens(kept[n].id, kept[n].context_length))]

RawModel(id, contextLength) == [id |-> id, context_length |-> contextLength]

\* a catalog that lists the configured model
ListedData ==
    <<RawModel("openai/gpt-4o", 128000),
      RawModel("anthropic/claude-3-haiku", 200000)>>

\* how the fetch of the catalog can fail: fetch() rejects ("reject"),
\* response.json() rejects on a body that is no JSON ("nonjson"), data.data
\* is no array of models ("noarray")
CatalogFailures == {"reject", "nonjson", "noarray"}

\* getAvailableModels: the catalog answers with a list that has the
\* configured model ("listed") or lacks it ("unlisted"), or the fetch fails
CatalogOutcomes == {"listed", "unlisted"} \cup CatalogFailures

\* the list of the catch block
FallbackModels ==
    {ModelInfo("anthropic/claude-3.5-sonnet", 200000, 8192),
     ModelInfo("openai/gpt-4o", 128000, 16384),
     ModelInfo("google/gemini-pro-1.5", 1000000, 32768),
     ModelInfo("meta-llama/llama-3.1-405b", 131072, 32768)}

\* a getAvailableModels whose try block leaves out response.json()
CatalogErrorEscapesBody(outcome) == outcome = "nonjson"

\* try { ... } catch (error) { ... return [...] }: does an error of the
\* fetch leave getAvailableModels
CatalogErrorEscapes(outcome) == FALSE

getAvailableModels(outcome) ==
    CASE outcome = "listed" -> Range(ListModels(ListedData))
      [] outcome = "unlisted" -> {}
      [] outcome \in CatalogFailures -> FallbackModels

NoCatalog == [outcome |-> "none", models |-> {}]

\* modelInfo?.maxOutputTokens || 8192
LookupMaxOutputTokens(models, id) ==
    IF \E m \in models : m.id = id
    THEN (CHOOSE m \in models : m.id = id).maxOutputTokens
    ELSE DefaultMaxOutputTokens

\* ---------------------------------------------------------- retryApiCall
NoOutcome == [status |-> "none", value |-> None, error |-> None]

\* a backoff that forgets the exponent
BackoffDelayFlat(base, a) == base

\* delay = baseDelay * Math.pow(2, attempt - 1)
BackoffDelay(base, a) == base * 2^(a - 1)

\* a catch block that keeps the first error
NextLastErrorFirst(prev, err) == IF prev = None THEN err ELSE prev

\* lastError = error
NextLastError(prev, err) == err

\* a loop that sleeps after the final attempt too
SleepsBetweenAlways(a, max) == a <= max

\* if (attempt < maxRetries) await this.sleep(delay)
SleepsBetween(a, max) == a < max

\* the operation retryApiCall wraps, by context: what its request can settle
\* with, and what the operation makes of it.  "op" is any operation(attempt)
OpResponses(ctx) ==
    CASE ctx = "outline" -> OutlineResponses
      [] ctx = "module" ->
           ModuleResponses(courseOutline.moduleTitles[i], lessonPlan)
      [] ctx = "op" -> FailedTexts \cup {[kind |-> "ok", value |-> None]}

OpOutcome(ctx, resp, a) ==
    CASE resp.kind = "reject" ->
           [ok |-> FALSE, value |-> None, error |-> Error("network", a)]
      [] resp.kind \in {"empty", "blank"} ->
           [ok |-> FALSE, value |-> None, error |-> Error("empty", a)]
      [] resp.kind = "garbage" ->
           [ok |-> FALSE, value |-> None, error |-> Error("parse", a)]
      [] resp.kind = "ok" /\ ctx = "outline" ->
           [ok |-> TRUE, error |-> None,
            value |-> [resp.value EXCEPT !.hasSources = TRUE, !.sources = <<>>]]
      [] resp.kind = "ok" /\ ctx = "module" ->
           [ok |-> TRUE, error |-> None, value |-> resp.value]
      [] resp.kind = "ok" /\ ctx = "op" ->
           [ok |-> TRUE, error |-> None, value |-> [kind |-> "value", attempt |-> a]]

\* operation(attempt) is invoked: it sends its request
InvokeOp(ctx, a, maxOut, pending) ==
    /\ rCalls' = IF a = 1 THEN <<1>> ELSE Append(rCalls, a)
    /\ Issue({WithPrompt(Request(ctx, IF ctx = "module" THEN i ELSE 0, 0, a,
                                 IF ctx = "op" THEN 0
                                 ELSE getTokenLimit(maxOut, ctx = "outline")),
                         IF ctx = "module"
                         THEN ORModulePrompt(courseOutline.moduleTitles, i)
                         ELSE NoPrompt)}, pending)

\* retryApiCall(operation, context, maxRetries, baseDelay) is entered: the
\* loop starts with attempt 1 and calls the operation
RetryEnter(ctx, max, base, maxOut, pending) ==
    /\ rCtx' = ctx
    /\ rMax' = max
    /\ rBase' = base
    /\ attempt' = 1
    /\ lastError' = None
    /\ sleeps' = <<>>
    /\ rSettled' = <<>>
    /\ rOutcome' = NoOutcome
    /\ InvokeOp(ctx, 1, maxOut, pending)
    /\ pc' = "r_op"

\* retryApiCall is left (by return or throw) inside a generator: its locals
\* are gone
RetryLeave ==
    /\ attempt' = 0 /\ rMax' = DefaultMaxRetries /\ rBase' = OutlineBaseDelay
    /\ rCtx' = "none" /\ rCalls' = <<>> /\ sleeps' = <<>> /\ lastError' = None
    /\ rSettled' = <<>>
    /\ rOutcome' = NoOutcome

\* a 'completed' update that lost its payload
OutlineDonePayloadLost(outline) == None

\* the payload of the update yielded when the outline is complete
OutlineDonePayload(outline) == outline

\* a module's 'completed' update that lost its payload
ModuleDonePayloadLost(m) == None

\* the payload of the update yielded when a module is complete
ModuleDonePayload(m) == m

\* a module loop that stops one title early
MoreModulesShort(idx, titles) == idx < Len(titles)

\* for (let i = 0; i < courseOutline.moduleTitles.length; i++)
MoreModules(idx, titles) == idx <= Len(titles)

\* what follows the return of retryApiCall, by context
AfterReturn(ctx, value, settled) ==
    CASE ctx = "op" ->
           /\ pc' = "r_done"
           /\ rOutcome' = [status |-> "returned", value |-> value, error |-> None]
           /\ rSettled' = settled
           /\ UNCHANGED <<attempt, rMax, rBase, rCtx, rCalls, sleeps, lastError>>
           /\ UNCHANGED <<demand, updates, courseOutline, i, module, failure>>
      [] ctx = "outline" ->
           /\ courseOutline' = value
           /\ Yield(Update(Outlining, OutlineDonePayload(value), 0, 0))
           /\ i' = 1
           /\ pc' = "m_loop"
           /\ RetryLeave
           /\ UNCHANGED <<module, failure>>
      [] ctx = "module" ->
           /\ Yield(Update(GeneratingModules, ModuleDonePayload(value), i, 0))
           /\ i' = i + 1
           /\ pc' = "m_loop"
           /\ RetryLeave
           /\ UNCHANGED <<courseOutline, module, failure>>

\* a catch block that gives up on the module and goes on with the next one
AfterThrowSkipsModule(ctx, err) ==
    CASE ctx = "op" ->
           /\ pc' = "r_done"
           /\ rOutcome' = [status |-> "thrown", value |-> None, error |-> err]
           /\ attempt' = attempt + 1
           /\ UNCHANGED <<rMax, rBase, rCtx, rCalls>>
           /\ UNCHANGED <<demand, updates, courseOutline, i, module, failure>>
      [] ctx = "outline" ->
           /\ Throw(StageError(ctx, "retries exhausted"))
           /\ RetryLeave
           /\ UNCHANGED <<updates, courseOutline, i, module>>
      [] ctx = "module" ->
           /\ i' = i + 1
           /\ pc' = "m_loop"
           /\ RetryLeave
           /\ UNCHANGED <<demand, updates, courseOutline, module, failure>>

\* what follows when retryApiCall throws lastError (err), by context: the
\* adapter replaces the error by its own
AfterThrow(ctx, err) ==
    CASE ctx = "op" ->
           /\ pc' = "r_done"
           /\ rOutcome' = [status |-> "thrown", value |-> None, error |-> err]
           /\ attempt' = attempt + 1
           /\ UNCHANGED <<rMax, rBase, rCtx, rCalls>>
           /\ UNCHANGED <<demand, updates, courseOutline, i, module, failure>>
      [] ctx \in {"outline", "module"} ->
           /\ Throw(StageError(ctx, "retries exhausted"))
           /\ RetryLeave
           /\ UNCHANGED <<updates, courseOutline, i, module>>

\* a loop that stops one attempt early
LoopContinuesShort(a, max) == a < max

\* a loop that makes one attempt more than maxRetries
LoopContinuesOnceMore(a, max) == a <= max + 1

\* for (let attempt = 1; attempt <= maxRetries; attempt++)
LoopContinues(a, max) == a <= max

\* attempt++ and the loop condition attempt <= maxRetries: the operation is
\* called again, or the loop is left and lastError (err) is thrown;
\* slept is the delays slept so far
RetryLoopNext(err, slept, settled, pending) ==
    IF LoopContinues(attempt + 1, rMax)
    THEN /\ attempt' = attempt + 1
         /\ InvokeOp(rCtx, attempt + 1, maxOutputTokens, pending)
         /\ pc' = "r_op"
         /\ lastError' = err
         /\ sleeps' = slept
         /\ rSettled' = settled
         /\ UNCHANGED <<rMax, rBase, rCtx, rOutcome, demand, updates,
                        courseOutline, i, module, failure>>
    ELSE /\ AfterThrow(rCtx, err)
         /\ IF rCtx = "op"
            THEN lastError' = err /\ sleeps' = slept /\ rSettled' = settled
            ELSE TRUE
         /\ inflight' = pending
         /\ UNCHANGED nRequests

\* the request of the current attempt settles; the rest of the loop body runs
RetryOpSettle ==
    /\ pc = "r_op"
    /\ \E req \in inflight, resp \in OpResponses(rCtx) :
         LET o == OpOutcome(rCtx, resp, attempt) IN
         /\ nEmptyOutline' = IF rCtx = "outline" /\ resp.kind \in {"empty", "blank"}
                             THEN nEmptyOutline + 1 ELSE nEmptyOutline
         /\ IF o.ok
            THEN /\ AfterReturn(rCtx, o.value, Append(rSettled, TRUE))
                 /\ inflight' = inflight \ {req}
                 /\ UNCHANGED nRequests
            ELSE IF SleepsBetween(attempt, rMax)
            THEN /\ lastError' = NextLastError(lastError, o.error)
                 /\ sleeps' = Append(sleeps, BackoffDelay(rBase, attempt))
                 /\ rSettled' = Append(rSettled, FALSE)
                 /\ pc' = "r_sleep"
                 /\ inflight' = inflight \ {req}
                 /\ UNCHANGED <<attempt, rMax, rBase, rCtx, rCalls, rOutcome,
                                nRequests, demand, updates, courseOutline, i,
                                module, failure>>
            ELSE RetryLoopNext(NextLastError(lastError, o.error), sleeps,
                               Append(rSettled, FALSE), inflight \ {req})
    /\ UNCHANGED <<inputVars, j, maxOutputTokens, imgLog>>

\* the timer of sleep(delay) fires
RetrySleepDone ==
    /\ pc = "r_sleep"
    /\ RetryLoopNext(lastError, sleeps, rSettled, inflight)
    /\ UNCHANGED <<inputVars, j, maxOutputTokens, nEmptyOutline, imgLog>>

\* a caller enters retryApiCall(operation, context, maxRetries, baseDelay)
\* with the arguments of the initial state
RetryCall ==
    /\ pc = "r_call"
    /\ RetryEnter("op", rMax, rBase, maxOutputTokens, inflight)
    /\ UNCHANGED <<inputVars, demand, updates, courseOutline, i, module, j,
                   maxOutputTokens, nEmptyOutline, imgLog, failure>>

\* ------------------------------- OpenRouterService.generateCourseStream
\* yield { step: Outlining, message: 'Phase 1: ...' }
ORStart ==
    /\ variant = "OR" /\ pc = "start" /\ Resumed
    /\ Yield(Update(Outlining, None, 0, 0))
    /\ pc' = "o_begin"
    /\ UNCHANGED <<inputVars, courseOutline, i, module, j, inflight, nRequests,
                   maxOutputTokens, retryVars, nEmptyOutline, imgLog, failure>>

\* const models = await this.getAvailableModels(): the catalog is fetched
ORGetModels ==
    /\ variant = "OR" /\ pc = "o_begin" /\ Resumed
    /\ Issue({Request("catalog", 0, 0, 1, 0)}, inflight)
    /\ pc' = "o_models"
    /\ UNCHANGED <<inputVars, demand, updates, courseOutline, i, module, j,
                   maxOutputTokens, retryVars, nEmptyOutline, imgLog, failure>>

\* the catalog fetch settles; maxOutputTokens is looked up and the outline
\* stage enters retryApiCall(..., 3, 1000)
ORModelsSettle ==
    /\ variant = "OR" /\ pc = "o_models"
    /\ \E req \in inflight, outcome \in CatalogOutcomes :
         LET models == getAvailableModels(outcome)
             maxOut == LookupMaxOutputTokens(models, modelId)
         IN  IF CatalogErrorEscapes(outcome)
             THEN /\ Throw(StageError("catalog", outcome))
                  /\ inflight' = inflight \ {req}
                  /\ UNCHANGED <<catalog, maxOutputTokens, nRequests, retryVars>>
             ELSE /\ catalog' = [outcome |-> outcome, models |-> models]
                  /\ maxOutputTokens' = maxOut
                  /\ RetryEnter("outline", DefaultMaxRetries, OutlineBaseDelay,
                                maxOut, inflight \ {req})
                  /\ UNCHANGED <<demand, failure>>
    /\ UNCHANGED <<argVars, updates, courseOutline, i, module, j,
                   nEmptyOutline, imgLog>>

\* the head of the module loop: the next module's 'starting' update, or the
\* end of the sequence
ORModuleStart ==
    /\ variant = "OR" /\ pc = "m_loop" /\ Resumed
    /\ IF ~courseOutline.hasTitles
       THEN /\ Throw(StageError("modules", "TypeError"))
            /\ UNCHANGED updates
       ELSE IF MoreModules(i, courseOutline.moduleTitles)
       THEN /\ Yield(Update(GeneratingModules, None, i, 0))
            /\ pc' = "m_begin"
            /\ UNCHANGED failure
       ELSE /\ Return
            /\ UNCHANGED <<updates, failure>>
    /\ UNCHANGED <<inputVars, courseOutline, i, module, j, inflight, nRequests,
                   maxOutputTokens, retryVars, nEmptyOutline, imgLog>>

\* the module stage enters retryApiCall(..., 3, 2000)
ORModuleIssue ==
    /\ variant = "OR" /\ pc = "m_begin" /\ Resumed
    /\ RetryEnter("module", DefaultMaxRetries, ModuleBaseDelay, maxOutputTokens,
                  inflight)
    /\ UNCHANGED <<inputVars, demand, updates, courseOutline, i, module, j,
                   maxOutputTokens, nEmptyOutline, imgLog, failure>>

NextOR == ORStart \/ ORGetModels \/ ORModelsSettle \/ ORModuleStart
          \/ ORModuleIssue

NextRetry == RetryOpSettle \/ RetrySleepDone

\* ------------------------------------ the adapters without a retry layer
\* yield { step: Outlining, message: ... }: the 'starting' update
PlainStart ==
    /\ variant \in {"GS", "P1"} /\ pc = "start" /\ Resumed
    /\ Yield(Update(Outlining, None, 0, 0))
    /\ pc' = "o_begin"
    /\ UNCHANGED <<inputVars, courseOutline, i, module, j, inflight, nRequests,
                   maxOutputTokens, retryVars, nEmptyOutline, imgLog, failure>>

\* the outline request is sent: callGeminiForJsonWithSearch / callApi
PlainOutlineIssue ==
    /\ variant \in {"GS", "P1"} /\ pc = "o_begin" /\ Resumed
    /\ Issue({Request("outline", 0, 0, 1, 0)}, inflight)
    /\ pc' = "o_req"
    /\ UNCHANGED <<inputVars, demand, updates, courseOutline, i, module, j,
                   maxOutputTokens, retryVars, nEmptyOutline, imgLog, failure>>

\* a loop body that sends the next module's request along with this one's
ModulesRequestedAhead(idx, titles) == {n \in {idx, idx + 1} : n <= Len(titles)}

\* the modules one pass of the module loop sends a request for: its own
ModulesRequested(idx, titles) == {idx}

\* the module request is sent
PlainModuleIssue ==
    /\ variant \in {"GS", "P1"} /\ pc = "m_begin" /\ Resumed
    /\ Issue({WithPrompt(Request("module", n, 0, 1, 0),
                         IF variant = "GS"
                         THEN GSModulePrompt(courseOutline.moduleTitles, n)
                         ELSE P1ModulePrompt(courseOutline.moduleTitles, n)) :
                 n \in ModulesRequested(i, courseOutline.moduleTitles)},
             inflight)
    /\ pc' = "m_req"
    /\ UNCHANGED <<inputVars, demand, updates, courseOutline, i, module, j,
                   maxOutputTokens, retryVars, nEmptyOutline, imgLog, failure>>

\* lesson.imagePrompt && lesson.imagePrompt.trim() !== ""
HasImagePrompt(lesson) ==
    Truthy(lesson.imagePrompt) /\ Trim(lesson.imagePrompt) # ""

SetImage(m, l, b64) == [m EXCEPT !.lessons[l].imageBase64 = b64]

\* ------------------------------------ geminiService.ts generateCourseStream
\* sources: one entry per grounding chunk that has a web uri
GSSources(chunks) == SelectSeq(chunks, LAMBDA c : c # Absent)

\* the outline request settles: sources are attached, the 'completed' update
\* is yielded
GSOutlineSettle ==
    /\ variant = "GS" /\ pc = "o_req"
    /\ \E req \in inflight, resp \in OutlineResponses,
          chunks \in GroundingChunkLists :
         /\ inflight' = inflight \ {req}
         /\ nEmptyOutline' = IF resp.kind \in {"empty", "blank"}
                             THEN nEmptyOutline + 1 ELSE nEmptyOutline
         /\ IF resp.kind = "ok"
            THEN LET outline == [resp.value EXCEPT !.hasSources = TRUE,
                                                   !.sources = GSSources(chunks)]
                 IN  /\ courseOutline' = outline
                     /\ Yield(Update(Outlining, OutlineDonePayload(outline), 0, 0))
                     /\ i' = 1
                     /\ pc' = "m_loop"
                     /\ UNCHANGED failure
            ELSE /\ Throw(StageError("outline",
                            IF resp.kind = "reject" THEN "network" ELSE "parse"))
                 /\ UNCHANGED <<updates, courseOutline, i>>
    /\ UNCHANGED <<inputVars, module, j, nRequests, maxOutputTokens, retryVars,
                   imgLog>>

\* the head of the module loop (on its first pass outline.moduleTitles.join
\* is evaluated before it)
GSModuleStart ==
    /\ variant = "GS" /\ pc = "m_loop" /\ Resumed
    /\ IF ~courseOutline.hasTitles
       THEN /\ Throw(StageError("modules", "TypeError"))
            /\ UNCHANGED updates
       ELSE IF MoreModules(i, courseOutline.moduleTitles)
       THEN /\ Yield(Update(GeneratingModules, None, i, 0))
            /\ pc' = "m_begin"
            /\ UNCHANGED failure
       ELSE /\ Return
            /\ UNCHANGED <<updates, failure>>
    /\ UNCHANGED <<inputVars, courseOutline, i, module, j, inflight, nRequests,
                   maxOutputTokens, retryVars, nEmptyOutline, imgLog>>

\* a lesson loop that ignores the includeImages flag
GSWantsImageAlways(includeImages, lesson) == HasImagePrompt(lesson)

\* if (includeImages) ... if (lesson.imagePrompt && ...trim() !== "")
GSWantsImage(includeImages, lesson) == includeImages /\ HasImagePrompt(lesson)

\* a catch block that rethrows
GSImageErrorEscapesYes(outcome) == outcome # "ok"

\* catch (imgErr) { console.error(...) }: does the error of a failed image
\* call leave the loop body
GSImageErrorEscapes(outcome) == FALSE

\* the lesson loop of module m from lesson l on: the next lesson that wants
\* an image gets its update, or the loop is over and the module is yielded
GSLessonLoop(m, l) ==
    LET wanting == {k \in l..Len(m.lessons) : GSWantsImage(generateImages, m.lessons[k])}
    IN  IF wanting # {}
        THEN LET k == CHOOSE x \in wanting : \A y \in wanting : x <= y
             IN  /\ Yield(Update(GeneratingImages, None, i, k))
                 /\ module' = m
                 /\ j' = k
                 /\ pc' = "img_yield"
                 /\ UNCHANGED i
        ELSE /\ Yield(Update(GeneratingModules, ModuleDonePayload(m), i, 0))
             /\ module' = None
             /\ j' = 0
             /\ i' = i + 1
             /\ pc' = "m_loop"

\* the module request settles
GSModuleSettle ==
    /\ variant = "GS" /\ pc = "m_req"
    /\ \E req \in inflight,
          resp \in ModuleResponses(courseOutline.moduleTitles[i], lessonPlan) :
         /\ inflight' = inflight \ {req}
         /\ IF resp.kind = "ok"
            THEN /\ GSLessonLoop(resp.value, 1)
                 /\ UNCHANGED failure
            ELSE /\ Throw(StageError("module",
                            IF resp.kind = "reject" THEN "network" ELSE "parse"))
                 /\ UNCHANGED <<updates, i, module, j>>
    /\ UNCHANGED <<inputVars, courseOutline, nRequests, maxOutputTokens, retryVars,
                   nEmptyOutline, imgLog>>

\* const imageBase64 = await generateImage(lesson.imagePrompt): the request
GSImageIssue ==
    /\ variant = "GS" /\ pc = "img_yield" /\ Resumed
    /\ Issue({Request("image", i, j, 1, 0)}, inflight)
    /\ pc' = "img_req"
    /\ UNCHANGED <<inputVars, demand, updates, courseOutline, i, module, j,
                   maxOutputTokens, retryVars, nEmptyOutline, imgLog, failure>>

\* the image request settles: generateImage returns the bytes or throws
GSImageSettle ==
    /\ variant = "GS" /\ pc = "img_req"
    /\ \E req \in inflight, outcome \in ImageOutcomes :
         /\ inflight' = inflight \ {req}
         /\ imgLog' = imgLog \cup {[mod |-> i, lesson |-> j, ok |-> outcome = "ok"]}
         /\ IF outcome = "ok"
            THEN /\ GSLessonLoop(SetImage(module, j, ImageBytes(j)), j + 1)
                 /\ UNCHANGED failure
            ELSE IF GSImageErrorEscapes(outcome)
            THEN /\ Throw(StageError("image", outcome))
                 /\ UNCHANGED <<updates, i, module, j>>
            ELSE /\ GSLessonLoop(module, j + 1)
                 /\ UNCHANGED failure
    /\ UNCHANGED <<inputVars, courseOutline, nRequests, maxOutputTokens, retryVars,
                   nEmptyOutline>>

NextGS == GSOutlineSettle \/ GSModuleStart \/ GSModuleSettle \/ GSImageIssue
          \/ GSImageSettle

\* ----------------------------------------- part_001 generateCourseStream
\* the outline request settles; an outline without module titles is an error
P1OutlineSettle ==
    /\ variant = "P1" /\ pc = "o_req"
    /\ \E req \in inflight, resp \in OutlineResponses :
         /\ inflight' = inflight \ {req}
         /\ nEmptyOutline' = IF resp.kind \in {"empty", "blank"}
                             THEN nEmptyOutline + 1 ELSE nEmptyOutline
         /\ IF resp.kind # "ok"
            THEN /\ Throw(StageError("outline", "callApi"))
                 /\ UNCHANGED <<updates, courseOutline, i>>
            ELSE IF ~resp.value.hasTitles \/ Len(resp.value.moduleTitles) = 0
            THEN /\ Throw(StageError("outline", "no modules"))
                 /\ UNCHANGED <<updates, courseOutline, i>>
            ELSE /\ courseOutline' = resp.value
                 /\ Yield(Update(Outlining, OutlineDonePayload(resp.value), 0, 0))
                 /\ i' = 1
                 /\ pc' = "m_loop"
                 /\ UNCHANGED failure
    /\ UNCHANGED <<inputVars, module, j, nRequests, maxOutputTokens, retryVars,
                   imgLog>>

\* for (let i = 0; i < totalModules; i++): the head of the module loop
P1ModuleStart ==
    /\ variant = "P1" /\ pc = "m_loop" /\ Resumed
    /\ IF MoreModules(i, courseOutline.moduleTitles)
       THEN /\ Yield(Update(GeneratingModules, None, i, 0))
            /\ pc' = "m_begin"
       ELSE /\ Return
            /\ UNCHANGED updates
    /\ UNCHANGED <<inputVars, courseOutline, i, module, j, inflight, nRequests,
                   maxOutputTokens, retryVars, nEmptyOutline, imgLog, failure>>

\* moduleContent.title = moduleTitle
P1ForceTitle(m, moduleTitle) == [m EXCEPT !.title = moduleTitle]

\* moduleContent.lessons.filter(l => l.imagePrompt && l.imagePrompt.trim())
lessonsWithImagePrompts(m) ==
    {l \in 1..Len(m.lessons) : HasImagePrompt(m.lessons[l])}

\* the module request settles
P1ModuleSettle ==
    /\ variant = "P1" /\ pc = "m_req"
    /\ \E req \in inflight,
          resp \in ModuleResponses(courseOutline.moduleTitles[i], lessonPlan) :
         /\ inflight' = inflight \ {req}
         /\ IF resp.kind # "ok"
            THEN /\ Throw(StageError("module", "callApi"))
                 /\ UNCHANGED <<updates, i, module>>
            ELSE LET m == P1ForceTitle(resp.value, courseOutline.moduleTitles[i])
                 IN  IF lessonsWithImagePrompts(m) # {}
                     THEN /\ Yield(Update(GeneratingImages, None, i, 0))
                          /\ module' = m
                          /\ pc' = "img_yield"
                          /\ UNCHANGED <<i, failure>>
                     ELSE /\ Yield(Update(GeneratingModules, ModuleDonePayload(m), i, 0))
                          /\ module' = None
                          /\ i' = i + 1
                          /\ pc' = "m_loop"
                          /\ UNCHANGED failure
    /\ UNCHANGED <<inputVars, courseOutline, j, nRequests, maxOutputTokens,
                   retryVars, nEmptyOutline, imgLog>>

\* await Promise.all(lessonsWithImagePrompts.map(async (lesson) => ...)):
\* every callback runs up to its await, so all image requests go out at once
P1ImagesIssue ==
    /\ variant = "P1" /\ pc = "img_yield" /\ Resumed
    /\ Issue({Request("image", i, l, 1, 0) : l \in lessonsWithImagePrompts(module)},
             inflight)
    /\ pc' = "img_wait"
    /\ UNCHANGED <<inputVars, demand, updates, courseOutline, i, module, j,
                   maxOutputTokens, retryVars, nEmptyOutline, imgLog, failure>>

\* generateImage of part_001: the bytes of the response, "" when the call
\* throws
P1generateImage(outcome, l) == IF outcome = "ok" THEN ImageBytes(l) ELSE ""

\* a Promise.race in place of the Promise.all
AllSettledFirst(pending) == TRUE

\* await Promise.all(...): resolved when none of the callbacks is pending
AllSettled(pending) == pending = {}

\* one of the image requests settles, in any order; when the last one has,
\* Promise.all resolves and the module is yielded
P1ImageSettle ==
    /\ variant = "P1" /\ pc = "img_wait"
    /\ \E req \in inflight, outcome \in ImageOutcomes :
         LET m == SetImage(module, req.lesson, P1generateImage(outcome, req.lesson))
         IN  /\ inflight' = inflight \ {req}
             /\ imgLog' = imgLog \cup {[mod |-> i, lesson |-> req.lesson,
                                        ok |-> outcome = "ok"]}
             /\ IF AllSettled(inflight \ {req})
                THEN /\ Yield(Update(GeneratingModules, ModuleDonePayload(m), i, 0))
                     /\ module' = None
                     /\ i' = i + 1
                     /\ pc' = "m_loop"
                ELSE /\ module' = m
                     /\ UNCHANGED <<pc, updates, demand, i>>
    /\ UNCHANGED <<inputVars, courseOutline, j, nRequests, maxOutputTokens,
                   retryVars, nEmptyOutline, failure>>

NextP1 == P1OutlineSettle \/ P1ModuleStart \/ P1ModuleSettle \/ P1ImagesIssue
          \/ P1ImageSettle

NextPlain == PlainStart \/ PlainOutlineIssue \/ PlainModuleIssue

\* ------------------------------------------------------- createAIService
\* the provider identifiers createAIService is called with
Providers == {"gemini", "openrouter", "Gemini", "anthropic", ""}

\* the value of a credential in process.env: not set, empty, or a key
KeyValues == {Absent, "", "k"}

NoKeys == [API_KEY |-> Absent, OPENROUTER_API_KEY |-> Absent]

\* the members of the AIService interface
AIServiceMethods ==
    {"generateCourseStream", "getAvailableModels", "supportsImages",
     "supportsSearch"}

\* what the module a provider is imported from exports
ModuleExports(p) ==
    CASE p = "gemini" -> {"generateCourseStream"}
      [] p = "openrouter" -> {"OpenRouterService", "createAIService", "DEFAULT_MODELS"}

\* the class createAIService destructures from the imported module
AdapterClass(p) ==
    CASE p = "gemini" -> "GeminiService"
      [] p = "openrouter" -> "OpenRouterService"

\* the public methods of class OpenRouterService
OpenRouterServiceMethods ==
    {"getAvailableModels", "supportsImages", "supportsSearch",
     "generateCourseStream"}

\* the top-level statements of the imported module: does its evaluation
\* complete, rather than throw
ModuleLoads(p, keys) ==
    CASE p = "gemini" -> Truthy(keys.API_KEY)
      [] p = "openrouter" -> TRUE

\* new OpenAI({ apiKey, ... }): the client library is not part of the
\* repository; given no key it may refuse to construct
ClientOutcomes(apiKey) ==
    IF apiKey = Absent THEN {"throws", "constructs"} ELSE {"constructs"}

\* createAIService(provider) up to its first await: the switch
CreateAIService ==
    /\ pc = "create"
    /\ IF provider \in {"gemini", "openrouter"}
       THEN /\ pc' = "import"
            /\ UNCHANGED failure
       ELSE /\ pc' = "create_failed"
            /\ failure' = StageError("createAIService", "Unsupported AI provider")
    /\ UNCHANGED <<inputVars, demand, updates, courseOutline, i, module, j,
                   inflight, nRequests, maxOutputTokens, retryVars,
                   nEmptyOutline, imgLog>>

\* the dynamic import settles: the module is evaluated, the class is taken
\* from its exports and constructed
ImportSettle ==
    /\ pc = "import"
    /\ \E client \in ClientOutcomes(apiKeys.OPENROUTER_API_KEY) :
         IF ~ModuleLoads(provider, apiKeys)
         THEN /\ pc' = "create_failed"
              /\ failure' = StageError("import", "API_KEY environment variable not set")
              /\ UNCHANGED <<service, nConstructed>>
         ELSE IF AdapterClass(provider) \notin ModuleExports(provider)
         THEN /\ pc' = "create_failed"
              /\ failure' = StageError("createAIService", "TypeError")
              /\ UNCHANGED <<service, nConstructed>>
         ELSE /\ nConstructed' = nConstructed + 1
              /\ IF client = "throws"
                 THEN /\ pc' = "create_failed"
                      /\ failure' = StageError("constructor", "OpenAIError")
                      /\ UNCHANGED service
                 ELSE /\ pc' = "start"
                      /\ service' = [class |-> AdapterClass(provider),
                                     methods |-> OpenRouterServiceMethods,
                                     apiKey |-> apiKeys.OPENROUTER_API_KEY]
                      /\ UNCHANGED failure
    /\ UNCHANGED <<variant, generateImages, modelId, lessonPlan, codecVars,
                   listingVars, appVars, schemaVars,
                   provider, apiKeys, catalog, demand, updates, courseOutline,
                   i, module, j, inflight, nRequests, maxOutputTokens, retryVars,
                   nEmptyOutline, imgLog>>

\* createAIService was not called
\* --------------------------------------------------------- getModuleSchema
\* baseModuleSchema, as far as the lessons' properties and required list go
BaseModuleSchema ==
    [properties |-> {"title", "content", "videoScript"},
     required |-> <<"title", "content", "videoScript">>]

\* the schema objects that exist are numbered; the first is the object the
\* constant baseModuleSchema refers to
BaseRef == 1

\* schema.properties.lessons.items.properties.imagePrompt = {...};
\* schema.properties.lessons.items.required.push("imagePrompt")
AddImagePrompt(schema) ==
    [properties |-> schema.properties \cup {"imagePrompt"},
     required |-> Append(schema.required, "imagePrompt")]

\* getModuleSchema of geminiService.ts ("GS") and of part_002 ("P2"): the
\* object it returns, new when it is a deep copy, and the objects after it
SchemaCall(objects, includeImages) ==
    LET copy == Len(objects) + 1
    IN  IF variant = "P2" /\ ~includeImages
        THEN [ref |-> BaseRef, objects |-> objects]
        ELSE [ref |-> copy,
              objects |-> Append(objects,
                             IF includeImages THEN AddImagePrompt(objects[BaseRef])
                             ELSE objects[BaseRef])]

NoSchemas == heap = <<>> /\ schemas = <<>>

\* ------------------------------------------------------------- App.tsx
\* the useState values of App before anything was submitted
InitialApp ==
    [isGenerating |-> FALSE, course |-> None, error |-> None,
     generationLog |-> <<>>, totalModules |-> 0, completedModules |-> 0,
     outlineComplete |-> FALSE]

\* the locals of handleGenerateCourse: tempCourse, tempModules, log and
\* currentLogIndex (an index from 0, -1 before the first entry); id counts
\* the calls, phase tells whether the call is in its loop or has left it
NoRun ==
    [id |-> 0, phase |-> "none", tempCourse |-> None, tempModules |-> <<>>,
     log |-> <<>>, currentLogIndex |-> -1]

NoApp == app = InitialApp /\ run = NoRun

\* what the user can have typed as topic
Topics == {"", " ", "t"}

\* update.message, as far as it tells the updates apart
Message(u) ==
    [kind |-> "update", step |-> u.step, mod |-> u.mod, lesson |-> u.lesson,
     cause |-> Absent]

\* `Error: ${errorMessage.substring(0, 100)}...`
ErrorMessage(e) ==
    [kind |-> "error", step |-> Absent, mod |-> 0, lesson |-> 0,
     cause |-> e.cause]

\* { message: update.message, isCompleted: false }; origin is the position
\* of the update that made the entry, of is the call that made it
LogEntry(u, n) ==
    [message |-> Message(u), isCompleted |-> FALSE, origin |-> n, of |-> run.id]

\* renderContent: the progress handed to LoadingState, as a fraction of 100
\* with denominator totalModules
Progress ==
    IF app.totalModules > 0
    THEN [num |-> (IF app.outlineComplete THEN OutlineShare ELSE 0) * app.totalModules
                  + app.completedModules * ModulesShare,
          den |-> app.totalModules]
    ELSE [num |-> 0, den |-> 1]

\* renderContent: which of the three views is shown
View ==
    IF app.isGenerating THEN "LoadingState"
    ELSE IF app.course # None THEN "CourseDisplay"
    ELSE "TopicInput"

\* a counter that is not advanced when an entry is pushed
NextLogIndexStuck(idx) == idx

\* currentLogIndex++
NextLogIndex(idx) == idx + 1

\* a finally block that is skipped when the loop threw
FinallyOnSuccessOnly(a, thrown) ==
    IF thrown THEN a ELSE [a EXCEPT !.isGenerating = FALSE]

\* finally { setIsGenerating(false); }
Finally(a, thrown) == [a EXCEPT !.isGenerating = FALSE]

\* catch (err) { ... }: the error is shown, and the last entry of the log
\* shown is marked with it
Catch(a, e) ==
    [a EXCEPT !.error = e,
              !.generationLog =
                 IF Len(@) > 0
                 THEN [@ EXCEPT ![Len(@)].isCompleted = FALSE,
                                ![Len(@)].message = ErrorMessage(e)]
                 ELSE @]

\* log[currentLogIndex] exists
InLog(r) == r.currentLogIndex + 1 \in 1..Len(r.log)

\* the body of the for await loop on update u, the n-th of the sequence:
\* what it does to the locals
LoopBodyRun(r, u, n) ==
    IF u.step \in {Outlining, GeneratingModules}
    THEN IF u.hasPayload
         THEN LET marked == [r.log EXCEPT ![r.currentLogIndex + 1].isCompleted = TRUE]
              IN  IF u.step = Outlining
                  THEN [r EXCEPT !.log = marked, !.tempCourse = u.payload]
                  ELSE [r EXCEPT !.log = marked,
                                 !.tempModules = Append(@, u.payload)]
         ELSE [r EXCEPT !.log = Append(@, LogEntry(u, n)),
                        !.currentLogIndex = NextLogIndex(@)]
    ELSE IF u.step = GeneratingImages /\ InLog(r)
    THEN [r EXCEPT !.log[r.currentLogIndex + 1].message = Message(u)]
    ELSE r

\* the body of the for await loop on update u: what it does to the state,
\* r being the locals after it
LoopBodyApp(a, r, u) ==
    LET logged == [a EXCEPT !.generationLog = r.log]
    IN  IF u.step = Outlining /\ u.hasPayload
        THEN [logged EXCEPT !.outlineComplete = TRUE,
                            !.totalModules = Len(u.payload.moduleTitles)]
        ELSE IF u.step = GeneratingModules /\ u.hasPayload
        THEN [logged EXCEPT !.completedModules = @ + 1]
        ELSE logged

\* log[currentLogIndex].isCompleted = true throws when the entry is missing
LoopBodyThrows(r, u) ==
    u.step \in {Outlining, GeneratingModules} /\ u.hasPayload /\ ~InLog(r)

\* no call of getAvailableModels or getMaxOutputTokens on its own
NoTokens == [id |-> Absent, contextLength |-> 0]
NoBudget == [maxOutputTokens |-> 0, outline |-> 0, module |-> 0]
NoListing ==
    /\ catIn = <<>> /\ catOut = <<>> /\ tokIn = NoTokens /\ tokOut = NoBudget

NoService ==
    /\ provider = Absent /\ apiKeys = NoKeys /\ service = None
    /\ nConstructed = 0

\* ------------------------------------------------------------ the runs
EmptyRetry ==
    /\ attempt = 0 /\ rMax = DefaultMaxRetries /\ rBase = OutlineBaseDelay
    /\ rCtx = "none" /\ rCalls = <<>> /\ sleeps = <<>> /\ lastError = None
    /\ rSettled = <<>>
    /\ rOutcome = NoOutcome

NoRequests == [k \in {"outline", "module", "image"} |-> 0]

Init ==
    /\ variant \in Variants
    /\ generateImages \in (IF variant = "P1" THEN {TRUE} ELSE BOOLEAN)
    /\ modelId \in ModelIds
    /\ lessonPlan \in (IF variant = "OR" THEN OneLessonLists ELSE LessonLists)
    /\ demand = FALSE
    /\ pc = "start"
    /\ updates = <<>>
    /\ courseOutline = None
    /\ i = 0 /\ j = 0
    /\ module = None
    /\ inflight = {} /\ nRequests = NoRequests
    /\ maxOutputTokens = 0
    /\ EmptyRetry
    /\ nEmptyOutline = 0
    /\ imgLog = {}
    /\ failure = None
    /\ catalog = NoCatalog
    /\ NoListing
    /\ NoApp
    /\ NoSchemas
    /\ NoService
    /\ codecIn = NoCodecInput /\ codecOut = NoParse

Next == Pull \/ NextOR \/ NextRetry \/ NextPlain \/ NextGS \/ NextP1

Spec == Init /\ [][Next]_vars

\* the runs of the OpenRouter adapter when every upstream call settles, the
\* event loop runs what is ready and the consumer keeps asking
InitLive ==
    /\ Init
    /\ variant = "OR"
    /\ lessonPlan = <<Lesson(Absent)>>

NextLive == Pull \/ NextOR \/ NextRetry

LiveSpec ==
    /\ InitLive /\ [][NextLive]_vars
    /\ WF_vars(Pull) /\ WF_vars(NextOR) /\ WF_vars(NextRetry)

\* retryApiCall on its own, for every maxRetries and the base delays in use
BaseDelays == {OutlineBaseDelay, ModuleBaseDelay}

InitRetry ==
    /\ variant = "OR"
    /\ generateImages = FALSE
    /\ modelId \in ModelIds
    /\ lessonPlan = <<Lesson(Absent)>>
    /\ demand = FALSE
    /\ pc = "r_call"
    /\ updates = <<>>
    /\ courseOutline = None
    /\ i = 0 /\ j = 0
    /\ module = None
    /\ inflight = {} /\ nRequests = NoRequests
    /\ maxOutputTokens = 0
    /\ attempt = 0
    /\ rMax \in 1..MaxRetriesBound
    /\ rBase \in BaseDelays
    /\ rCtx = "op" /\ rCalls = <<>> /\ sleeps = <<>> /\ lastError = None
    /\ rSettled = <<>>
    /\ rOutcome = NoOutcome
    /\ nEmptyOutline = 0
    /\ imgLog = {}
    /\ failure = None
    /\ catalog = NoCatalog
    /\ NoListing
    /\ NoApp
    /\ NoSchemas
    /\ NoService
    /\ codecIn = NoCodecInput /\ codecOut = NoParse

NextRetryOnly == RetryCall \/ RetryOpSettle \/ RetrySleepDone

RetrySpec == InitRetry /\ [][NextRetryOnly]_vars

\* safeJsonParse on its own, for every text of CodecInputs
InitCodec ==
    /\ variant = "OR"
    /\ generateImages = FALSE
    /\ modelId \in ModelIds
    /\ lessonPlan = <<Lesson(Absent)>>
    /\ demand = FALSE
    /\ pc = "codec"
    /\ updates = <<>>
    /\ courseOutline = None
    /\ i = 0 /\ j = 0
    /\ module = None
    /\ inflight = {} /\ nRequests = NoRequests
    /\ maxOutputTokens = 0
    /\ EmptyRetry
    /\ nEmptyOutline = 0
    /\ imgLog = {}
    /\ failure = None
    /\ catalog = NoCatalog
    /\ NoListing
    /\ NoApp
    /\ NoSchemas
    /\ NoService
    /\ codecIn \in CodecInputs
    /\ codecOut = NoParse

\* this.safeJsonParse(responseText, context) is called
SafeJsonParse ==
    /\ pc = "codec"
    /\ codecOut = NoParse
    /\ codecOut' = safeJsonParse(codecIn.text, codecIn.context)
    /\ pc' = "codec_done"
    /\ UNCHANGED <<variant, generateImages, modelId, lessonPlan, codecIn, demand,
                   catalog, serviceVars, listingVars, appVars, schemaVars,
                   updates, courseOutline, i, module, j, inflight, nRequests,
                   maxOutputTokens, retryVars, nEmptyOutline, imgLog, failure>>

CodecSpec == InitCodec /\ [][SafeJsonParse]_vars

\* what the actions of App leave alone
appFrame ==
    <<variant, generateImages, modelId, lessonPlan, codecVars, serviceVars,
      listingVars, schemaVars, catalog, maxOutputTokens, retryVars>>

\* TopicInput.handleSubmit and App.handleGenerateCourse up to the first
\* next() of the for await loop
HandleSubmit ==
    /\ View = "TopicInput"
    /\ run.id < MaxRuns
    /\ \E topic \in Topics :
         LET disabled == app.isGenerating
         IN  IF Trim(topic) # "" /\ ~disabled
             THEN /\ app' = [InitialApp EXCEPT !.isGenerating = TRUE]
                  /\ run' = [NoRun EXCEPT !.id = run.id + 1, !.phase = "loop"]
                  /\ pc' = "start"
                  /\ demand' = TRUE
                  /\ updates' = <<>>
                  /\ courseOutline' = None
                  /\ i' = 0 /\ j' = 0
                  /\ module' = None
                  /\ inflight' = {} /\ nRequests' = NoRequests
                  /\ nEmptyOutline' = 0
                  /\ imgLog' = {}
                  /\ failure' = None
             ELSE UNCHANGED <<app, run, pc, demand, updates, courseOutline, i, j,
                              module, inflight, nRequests, nEmptyOutline,
                              imgLog, failure>>
    /\ UNCHANGED appFrame

\* an update arrives: the loop body runs on it and the loop asks for the
\* next one; a body that throws ends the loop and the generator
LoopBody ==
    /\ run.phase = "loop"
    /\ ~demand
    /\ pc \notin {"done", "failed"}
    /\ LET n == Len(updates)
           u == updates[n]
       IN  IF LoopBodyThrows(run, u)
           THEN /\ run' = [run EXCEPT !.phase = "left"]
                /\ app' = Finally(Catch(app, StageError("loop", "TypeError")), TRUE)
                /\ pc' = "closed"
                /\ UNCHANGED demand
           ELSE /\ run' = LoopBodyRun(run, u, n)
                /\ app' = LoopBodyApp(app, run', u)
                /\ demand' = TRUE
                /\ UNCHANGED pc
    /\ UNCHANGED <<appFrame, updates, courseOutline, i, j, module, inflight,
                   nRequests, nEmptyOutline, imgLog, failure>>

\* the sequence is exhausted: tempCourse.modules = tempModules;
\* setCourse(tempCourse); and the finally block
LoopExhausted ==
    /\ run.phase = "loop"
    /\ pc = "done"
    /\ run' = [run EXCEPT !.phase = "left"]
    /\ app' = Finally([app EXCEPT !.course =
                          [outline |-> run.tempCourse,
                           modules |-> run.tempModules, of |-> run.id]],
                      FALSE)
    /\ UNCHANGED <<appFrame, pc, demand, updates, courseOutline, i, j, module,
                   inflight, nRequests, nEmptyOutline, imgLog, failure>>

\* the sequence ends with an error: the catch block and the finally block
LoopThrew ==
    /\ run.phase = "loop"
    /\ pc = "failed"
    /\ run' = [run EXCEPT !.phase = "left"]
    /\ app' = Finally(Catch(app, failure), TRUE)
    /\ UNCHANGED <<appFrame, pc, demand, updates, courseOutline, i, j, module,
                   inflight, nRequests, nEmptyOutline, imgLog, failure>>

\* handleReset, from the course display
HandleReset ==
    /\ View = "CourseDisplay"
    /\ app' = [app EXCEPT !.course = None, !.error = None,
                          !.isGenerating = FALSE, !.generationLog = <<>>]
    /\ UNCHANGED <<appFrame, run, pc, demand, updates, courseOutline, i, j, module,
                   inflight, nRequests, nEmptyOutline, imgLog, failure>>

\* the lesson plans App is run on: each lesson has a prompt or has none
AppLessonLists ==
    {ls \in LessonLists : \A k \in 1..Len(ls) : ls[k].imagePrompt \in {Absent, "p"}}

\* App with the generator it imports, geminiService.generateCourseStream
InitApp ==
    /\ variant = "GS"
    /\ generateImages \in BOOLEAN
    /\ modelId \in ModelIds
    /\ lessonPlan \in AppLessonLists
    /\ demand = FALSE
    /\ pc = "idle"
    /\ updates = <<>>
    /\ courseOutline = None
    /\ i = 0 /\ j = 0
    /\ module = None
    /\ inflight = {} /\ nRequests = NoRequests
    /\ maxOutputTokens = 0
    /\ EmptyRetry
    /\ nEmptyOutline = 0
    /\ imgLog = {}
    /\ failure = None
    /\ catalog = NoCatalog
    /\ NoListing
    /\ NoApp
    /\ NoSchemas
    /\ NoService
    /\ codecIn = NoCodecInput /\ codecOut = NoParse

NextApp == HandleSubmit \/ LoopBody \/ LoopExhausted \/ LoopThrew \/ HandleReset
           \/ PlainStart \/ PlainOutlineIssue \/ PlainModuleIssue \/ NextGS

AppSpec == InitApp /\ [][NextApp]_vars

\* getModuleSchema on its own, in both files that define it
schemaFrame ==
    <<generateImages, modelId, lessonPlan, codecVars, serviceVars, listingVars,
      appVars, demand, pc, catalog, updates, courseOutline, i, module, j,
      inflight, nRequests, maxOutputTokens, retryVars, nEmptyOutline, imgLog,
      failure>>

InitSchema ==
    /\ variant \in {"GS", "P2"}
    /\ generateImages = FALSE
    /\ modelId \in ModelIds
    /\ lessonPlan = <<Lesson(Absent)>>
    /\ demand = FALSE
    /\ pc = "schema"
    /\ updates = <<>>
    /\ courseOutline = None
    /\ i = 0 /\ j = 0
    /\ module = None
    /\ inflight = {} /\ nRequests = NoRequests
    /\ maxOutputTokens = 0
    /\ EmptyRetry
    /\ nEmptyOutline = 0
    /\ imgLog = {}
    /\ failure = None
    /\ catalog = NoCatalog
    /\ NoListing
    /\ NoApp
    /\ NoService
    /\ codecIn = NoCodecInput /\ codecOut = NoParse
    /\ heap = <<BaseModuleSchema>>
    /\ schemas = <<>>

\* const moduleSchema = getModuleSchema(includeImages)
GetModuleSchema ==
    /\ pc = "schema"
    /\ Len(schemas) < MaxCalls
    /\ \E includeImages \in BOOLEAN :
         LET call == SchemaCall(heap, includeImages)
         IN  /\ heap' = call.objects
             /\ schemas' = Append(schemas,
                              [includeImages |-> includeImages, ref |-> call.ref,
                               schema |-> call.objects[call.ref]])
    /\ UNCHANGED <<variant, schemaFrame>>

\* the caller changes a schema it was given, the way getModuleSchema
\* itself changes its copy
MutateSchema ==
    /\ pc = "schema"
    /\ \E k \in 1..Len(schemas) :
         /\ "imagePrompt" \notin heap[schemas[k].ref].properties
         /\ heap' = [heap EXCEPT ![schemas[k].ref] = AddImagePrompt(@)]
    /\ UNCHANGED <<variant, schemaFrame, schemas>>

NextSchema == GetModuleSchema \/ MutateSchema

SchemaSpec == InitSchema /\ [][NextSchema]_vars

\* the model descriptors a catalog response is made of: suitable ones,
\* ones with a context below the minimum, and ones of the families left out
CatalogPool ==
    <<RawModel("anthropic/claude-3.5-sonnet", 200000),
      RawModel("openai/gpt-4o-2024-08-06", 128000),
      RawModel("openai/gpt-4-vision-preview", 128000),
      RawModel("cohere/command-r", 128000),
      RawModel("openai/gpt-3.5-turbo", 16385),
      RawModel("google/gemini-flash-1.5", 1000000),
      RawModel("openai/whisper-large-v3", 32000),
      RawModel("x-ai/grok-2", 32000),
      RawModel("anthropic/claude-opus-4.1", 200000),
      RawModel("openai/text-embedding-3-large", 32768),
      RawModel("deepseek/deepseek-r1", 31999),
      RawModel("openai/gpt-4-32k", 32768),
      RawModel("nousresearch/hermes-3", 40000)>>

CatalogStrides == {1, 5}

\* the catalog of n descriptors that walks the pool from start in steps
\* of stride
CatalogData(n, start, stride) ==
    [k \in 1..n |->
        CatalogPool[((start + (k - 1) * stride) % Len(CatalogPool)) + 1]]

RawCatalogs ==
    {CatalogData(n, start, stride) :
        n \in 0..MaxCatalog, start \in 0..(Len(CatalogPool) - 1),
        stride \in CatalogStrides}

\* the arguments getMaxOutputTokens is given
TokenIds ==
    DOMAIN modelLimits
    \cup {CatalogPool[k].id : k \in 1..Len(CatalogPool)}
    \cup {"anthropic/claude-3.5-haiku", "anthropic/claude-2", "openai/gpt-5-mini",
          "mistralai/mixtral-8x7b", "meta-llama/llama-3.2-3b", "qwen/qwen-2.5-72b"}
ContextLengths ==
    {0, 1, 4096, 32000, 32767, 32768, 32772, 40000, 131071, 131072, 200000, 1000000}
TokenInputs ==
    {[id |-> id, contextLength |-> c] : id \in TokenIds, c \in ContextLengths}

InitCatalog ==
    /\ variant = "OR"
    /\ generateImages = FALSE
    /\ modelId \in ModelIds
    /\ lessonPlan = <<Lesson(Absent)>>
    /\ demand = FALSE
    /\ updates = <<>>
    /\ courseOutline = None
    /\ i = 0 /\ j = 0
    /\ module = None
    /\ inflight = {} /\ nRequests = NoRequests
    /\ maxOutputTokens = 0
    /\ EmptyRetry
    /\ nEmptyOutline = 0
    /\ imgLog = {}
    /\ failure = None
    /\ catalog = NoCatalog
    /\ NoService
    /\ codecIn = NoCodecInput /\ codecOut = NoParse
    /\ NoApp
    /\ NoSchemas
    /\ catOut = <<>> /\ tokOut = NoBudget
    /\ \/ pc = "catalog" /\ catIn \in RawCatalogs /\ tokIn = NoTokens
       \/ pc = "tokens" /\ catIn = <<>> /\ tokIn \in TokenInputs

catalogFrame ==
    <<variant, generateImages, modelId, lessonPlan, codecVars, serviceVars, appVars,
      schemaVars,
      demand, catalog, updates, courseOutline, i, module, j, inflight,
      nRequests, maxOutputTokens, retryVars, nEmptyOutline, imgLog, failure>>

\* the try block of getAvailableModels runs on the data of the response
GetAvailableModels ==
    /\ pc = "catalog"
    /\ catOut' = ListModels(catIn)
    /\ pc' = "catalog_done"
    /\ UNCHANGED <<catalogFrame, catIn, tokIn, tokOut>>

\* this.getMaxOutputTokens(model.id, model.context_length)
GetMaxOutputTokens ==
    /\ pc = "tokens"
    /\ tokOut' = [tokOut EXCEPT !.maxOutputTokens =
                     getMaxOutputTokens(tokIn.id, tokIn.contextLength)]
    /\ pc' = "budget"
    /\ UNCHANGED <<catalogFrame, catIn, catOut, tokIn>>

\* this.getTokenLimit(modelConfig.model, maxOutputTokens, true) and
\* this.getTokenLimit(modelConfig.model, maxOutputTokens, false)
GetTokenLimit ==
    /\ pc = "budget"
    /\ tokOut' = [tokOut EXCEPT
                     !.outline = getTokenLimit(tokOut.maxOutputTokens, TRUE),
                     !.module = getTokenLimit(tokOut.maxOutputTokens, FALSE)]
    /\ pc' = "budget_done"
    /\ UNCHANGED <<catalogFrame, catIn, catOut, tokIn>>

NextCatalog == GetAvailableModels \/ GetMaxOutputTokens \/ GetTokenLimit

CatalogSpec == InitCatalog /\ [][NextCatalog]_vars

\* createAIService for every provider identifier and every setting of the
\* credentials, and the outline stage of the adapter it returns
InitService ==
    /\ variant = "OR"
    /\ generateImages = FALSE
    /\ modelId \in ModelIds
    /\ lessonPlan = <<Lesson(Absent)>>
    /\ demand = FALSE
    /\ pc = "create"
    /\ updates = <<>>
    /\ courseOutline = None
    /\ i = 0 /\ j = 0
    /\ module = None
    /\ inflight = {} /\ nRequests = NoRequests
    /\ maxOutputTokens = 0
    /\ EmptyRetry
    /\ nEmptyOutline = 0
    /\ imgLog = {}
    /\ failure = None
    /\ catalog = NoCatalog
    /\ NoListing
    /\ NoApp
    /\ NoSchemas
    /\ provider \in Providers
    /\ apiKeys \in [API_KEY : KeyValues, OPENROUTER_API_KEY : KeyValues]
    /\ service = None
    /\ nConstructed = 0
    /\ codecIn = NoCodecInput /\ codecOut = NoParse

NextService == CreateAIService \/ ImportSettle \/ Pull \/ ORStart
               \/ ORGetModels \/ ORModelsSettle \/ RetryOpSettle
               \/ RetrySleepDone

ServiceSpec == InitService /\ [][NextService]_vars

\* ------------------------------------------------------------ the claims
Positions == 1..Len(updates)
OutlineDone == {n \in Positions : updates[n].step = Outlining /\ updates[n].hasPayload}
ModuleUpdates == {n \in Positions : updates[n].step = GeneratingModules}
ModuleDone == {n \in ModuleUpdates : updates[n].hasPayload}
ImageUpdates == {n \in Positions : updates[n].step = GeneratingImages}
ModuleDoneSeq ==
    SelectSeq(updates, LAMBDA u : u.step = GeneratingModules /\ u.hasPayload)
RunOver == pc \in {"done", "failed"}
OutlineFailed == pc = "failed" /\ failure.stage = "outline"

RECURSIVE Doubling(_)
Doubling(n) == IF n <= 1 THEN 1 ELSE 2 * Doubling(n - 1)

\* C1 as stated: every run, once over, has yielded exactly one Outlining
\* update with a payload, and it precedes every GeneratingModules update
C1_EveryRunOneOutline ==
    RunOver =>
       /\ Cardinality(OutlineDone) = 1
       /\ \A n \in ModuleUpdates : \E m \in OutlineDone : m < n

\* C1 amended: at most one Outlining update with a payload is ever yielded,
\* every GeneratingModules update comes after it, and exactly one has been
\* yielded once the outline stage is over without failing (a run whose
\* outline stage fails yields none)
C1_OneOutlineBeforeModules ==
    /\ Cardinality(OutlineDone) <= 1
    /\ \A n \in ModuleUpdates : \E m \in OutlineDone : m < n
    /\ (courseOutline # None \/ (RunOver /\ ~OutlineFailed))
          => Cardinality(OutlineDone) = 1
    /\ OutlineFailed => OutlineDone = {}

C1_Witness ==
    /\ pc = "done"
    /\ Cardinality(OutlineDone) = 1
    /\ Cardinality(ModuleUpdates) >= 2

\* C2: the module-completed updates yielded so far are, in order, those of
\* moduleTitles[1], moduleTitles[2], ...; when the sequence ends normally
\* there are exactly k of them, k the number of module titles, and the last
\* update yielded is the k-th
C2_KModulesInOrder ==
    /\ \A n \in 1..Len(ModuleDoneSeq) :
          /\ n <= Len(courseOutline.moduleTitles)
          /\ ModuleDoneSeq[n].mod = n
          /\ ModuleDoneSeq[n].payload.prompted = courseOutline.moduleTitles[n]
    /\ pc = "done" =>
          /\ Len(ModuleDoneSeq) = Len(courseOutline.moduleTitles)
          /\ Len(courseOutline.moduleTitles) > 0 =>
                updates[Len(updates)] = ModuleDoneSeq[Len(ModuleDoneSeq)]

C2_Witness ==
    /\ pc = "done"
    /\ Len(courseOutline.moduleTitles) >= 2
    /\ Len(ModuleDoneSeq) = Len(courseOutline.moduleTitles)

\* C3: the title of every yielded Module payload is the outline's title of
\* the module it was generated for
C3_TitleIsOutlineTitle ==
    \A n \in ModuleDone :
       updates[n].payload.title = courseOutline.moduleTitles[updates[n].mod]

\* C4: with maxRetries = 3, when the operation failed on attempts 1 and 2
\* and succeeded on attempt 3, retryApiCall has returned the value of
\* attempt 3, has called the operation with 1, 2, 3 and no more, and slept
\* longer before attempt 3 than before attempt 2
C4_ThirdAttemptSucceeds ==
    (rCtx = "op" /\ rMax = 3 /\ rSettled = <<FALSE, FALSE, TRUE>>) =>
       /\ pc = "r_done"
       /\ rOutcome.status = "returned"
       /\ rOutcome.value = [kind |-> "value", attempt |-> 3]
       /\ rCalls = <<1, 2, 3>>
       /\ Len(sleeps) = 2
       /\ sleeps[2] > sleeps[1]

C4_Witness ==
    /\ rCtx = "op" /\ rMax = 3 /\ rSettled = <<FALSE, FALSE, TRUE>>
    /\ pc = "r_done"

AllFailed == \A n \in 1..Len(rSettled) : ~rSettled[n]

\* C5: attempts are sequential (at most one call of the operation is
\* unsettled, and attempt a+1 is called only when a has settled); as long
\* as every attempt failed retryApiCall returns nothing and goes on until
\* maxRetries calls were made; then it throws the error of the last attempt
C5_AllFailThrowsLast ==
    rCtx = "op" =>
       /\ Cardinality(inflight) <= 1
       /\ rCalls = [n \in 1..Len(rCalls) |-> n]
       /\ Len(rSettled) = Len(rCalls) - Cardinality(inflight)
       /\ AllFailed => rOutcome.status # "returned"
       /\ (AllFailed /\ pc = "r_done") =>
             /\ Len(rCalls) = rMax
             /\ rOutcome.status = "thrown"
             /\ rOutcome.value = None
             /\ rOutcome.error.attempt = rMax
       /\ (AllFailed /\ Len(rSettled) < rMax) => pc # "r_done"

C5_Witness ==
    /\ rCtx = "op" /\ pc = "r_done" /\ rMax >= 2
    /\ rOutcome.status = "thrown"
    /\ Len(rSettled) = rMax

\* C6: the n-th delay slept is baseDelay * 2^(n-1) and follows the failed
\* attempt n; there is one delay per failed attempt other than attempt
\* maxRetries and none after a success, so a call whose attempts all failed
\* has slept maxRetries - 1 times
C6_ExponentialBackoff ==
    rCtx = "op" =>
       /\ \A n \in 1..Len(sleeps) :
             /\ sleeps[n] = rBase * Doubling(n)
             /\ n < rMax
             /\ n <= Len(rSettled) /\ ~rSettled[n]
       /\ Len(sleeps) = Cardinality({n \in 1..Len(rSettled) : ~rSettled[n] /\ n < rMax})
       /\ (pc = "r_done" /\ rOutcome.status = "thrown") => Len(sleeps) = rMax - 1

C6_Witness ==
    /\ rCtx = "op" /\ pc = "r_done" /\ rOutcome.status = "thrown"
    /\ rMax = 3 /\ sleeps = <<rBase, 2 * rBase>>

\* C7: when the outline requests made so far, one or two of them, all got an
\* empty or blank text, the run has not failed; and when two got one and the
\* outline exists, it came from the third request and was yielded
C7_EmptyOutlineRetried ==
    /\ (nEmptyOutline \in {1, 2} /\ nRequests["outline"] = nEmptyOutline
          /\ ~\E r \in inflight : r.kind = "outline")
          => pc # "failed"
    /\ (nEmptyOutline = 2 /\ courseOutline # None) =>
          /\ nRequests["outline"] = 3
          /\ \E n \in OutlineDone : updates[n].payload = courseOutline

\* C8: a failed image call never ends the run; the module it belongs to is
\* still being worked on or its completed update has been yielded; the
\* lessons whose call succeeded carry the bytes returned for them; and a
\* run that ends normally has yielded every module
C8_ImageFailureIsolated ==
    /\ pc = "failed" => failure.stage # "image"
    /\ \A e \in imgLog :
          ~e.ok =>
             \/ (i = e.mod /\ pc \in {"img_yield", "img_req", "img_wait"})
             \/ \E n \in ModuleDone : updates[n].mod = e.mod
    /\ \A e \in imgLog, n \in ModuleDone :
          (e.ok /\ updates[n].mod = e.mod) =>
             updates[n].payload.lessons[e.lesson].imageBase64 = ImageBytes(e.lesson)
    /\ ((\E e \in imgLog : ~e.ok) /\ pc = "done") =>
          Len(ModuleDoneSeq) = Len(courseOutline.moduleTitles)

C8_Witness ==
    /\ pc = "done"
    /\ Len(ModuleDoneSeq) = 2
    /\ \E e, f \in imgLog : e.mod = 1 /\ f.mod = 1 /\ ~e.ok /\ f.ok
    /\ \E l \in 1..Len(ModuleDoneSeq[1].payload.lessons) :
          ModuleDoneSeq[1].payload.lessons[l].imageBase64 = ImageBytes(l)

\* C9: in every yielded Module payload a lesson has imageBase64 set only if
\* an image call for it succeeded
C9_ImageOnlyOnSuccess ==
    \A n \in ModuleDone :
       \A l \in 1..Len(updates[n].payload.lessons) :
          updates[n].payload.lessons[l].imageBase64 # Absent =>
             [mod |-> updates[n].mod, lesson |-> l, ok |-> TRUE] \in imgLog

\* C10: with generateImages = false no GeneratingImages update is yielded
\* and no image request is made
C10_NoImagesWhenDisabled ==
    ~generateImages =>
       /\ ImageUpdates = {}
       /\ nRequests["image"] = 0
       /\ ~\E r \in inflight : r.kind = "image"

C10_Witness ==
    /\ ~generateImages
    /\ pc = "done"
    /\ \E n \in ModuleDone :
          \E l \in 1..Len(updates[n].payload.lessons) :
             HasImagePrompt(updates[n].payload.lessons[l])

\* C11: the prompt of every module request names the module's own title,
\* gives as previously covered exactly the titles before it, and mentions
\* no title after it
C11_PromptContext ==
    \A r \in inflight :
       r.kind = "module" =>
          LET titles == courseOutline.moduleTitles IN
          /\ r.prompt.moduleTitle = titles[r.mod]
          /\ r.prompt.previous = SubSeq(titles, 1, r.mod - 1)
          /\ \A n \in (r.mod + 1)..Len(titles) : titles[n] \notin r.prompt.mentioned

\* C12: no Outlining update carries an outline whose moduleTitles is missing
\* or empty, and no run ends normally with zero modules
C12_EmptyTitlesFail ==
    /\ \A n \in OutlineDone :
          /\ updates[n].payload.hasTitles
          /\ Len(updates[n].payload.moduleTitles) > 0
    /\ pc = "done" => Len(courseOutline.moduleTitles) > 0

\* the attempts a text-generation stage gets: those of retryApiCall in the
\* OpenRouter adapter, one in the others
StageAttempts == IF variant = "OR" THEN DefaultMaxRetries ELSE 1
ModuleFailed == pc = "failed" /\ failure.stage = "module"

\* C13: when all attempts of the outline stage have failed the run is over
\* with an error; such a run has yielded the Outlining 'starting' update and
\* nothing else and has sent no module or image request; no module request
\* is sent while there is no outline
C13_OutlineFailureFatal ==
    /\ (courseOutline = None /\ nRequests["outline"] = StageAttempts
          /\ ~\E r \in inflight : r.kind = "outline") => OutlineFailed
    /\ OutlineFailed =>
          /\ updates = <<Update(Outlining, None, 0, 0)>>
          /\ nRequests["module"] = 0 /\ nRequests["image"] = 0
          /\ inflight = {}
    /\ courseOutline = None => nRequests["module"] = 0

C13_Witness ==
    /\ OutlineFailed
    /\ nRequests["outline"] = DefaultMaxRetries

\* C14: a module request is only ever in flight for module i, when the
\* completed updates of the modules before i, and only those, have been
\* yielded; when the stage of module i has failed the run is over with
\* exactly those updates yielded, nothing in flight, and no module request
\* sent beyond the attempts of modules 1..i
C14_ModuleFailureAfterPartial ==
    /\ \A r \in inflight :
          r.kind = "module" => r.mod = i /\ Len(ModuleDoneSeq) = i - 1
    /\ ModuleFailed =>
          /\ Len(ModuleDoneSeq) = i - 1
          /\ \A n \in 1..(i - 1) : ModuleDoneSeq[n].mod = n
          /\ inflight = {}
          /\ nRequests["module"] >= (i - 1) + StageAttempts
          /\ nRequests["module"] <= i * StageAttempts

C14_Witness ==
    /\ ModuleFailed
    /\ i = 2
    /\ Len(ModuleDoneSeq) = 1

TextInflight == {r \in inflight : r.kind \in {"outline", "module"}}

\* C15: at most one outline or module request is in flight; a module request
\* is in flight only when the outline request has settled and the outline
\* was yielded, it is the request of module i, the completed updates of all
\* modules before i have been yielded, and the consumer has taken them and
\* asked for the next update
C15_NoPipelining ==
    /\ Cardinality(TextInflight) <= 1
    /\ \A r \in inflight :
          r.kind = "module" =>
             /\ courseOutline # None /\ OutlineDone # {}
             /\ r.mod = i
             /\ {updates[n].mod : n \in ModuleDone} = 1..(r.mod - 1)
             /\ demand

C15_Witness ==
    /\ \E r \in inflight : r.kind = "module" /\ r.mod = 2
    /\ Len(ModuleDoneSeq) = 1

ImageInflight == {r \in inflight : r.kind = "image"}

\* C16: an image request is in flight only for the module being generated,
\* whose completed update has not been yielded, and never together with a
\* module request; every image request sent has settled or is in flight
C16_FanInBarrier ==
    /\ \A r \in ImageInflight :
          /\ r.mod = i
          /\ pc \in {"img_req", "img_wait"}
          /\ ~\E n \in ModuleDone : updates[n].mod = r.mod
          /\ ~\E q \in inflight : q.kind = "module"
    /\ nRequests["image"] = Cardinality(imgLog) + Cardinality(ImageInflight)

C16_Witness ==
    /\ variant = "P1" /\ pc = "img_wait" /\ i = 2
    /\ Cardinality({e \in imgLog : e.mod = 1}) = 2
    /\ \E n \in ModuleDone : updates[n].mod = 1
    /\ \E e \in imgLog : e.mod = 2 /\ e.lesson = 2
    /\ \E r \in ImageInflight : r.lesson = 1

Decoded == codecOut.status # "none"

\* C17: for every text that holds a well-formed object, in a fence or not,
\* with prose around it or not, with a trailing comma or not, safeJsonParse
\* returns that object
C17_RecoversWrappedObject ==
    (codecIn.class = "object" /\ Decoded) =>
       /\ codecOut.status = "returned"
       /\ codecOut.value = codecIn.doc

\* C18: for every text with no balanced {...} span safeJsonParse throws
C18_ThrowsWithoutObject ==
    (codecIn.class = "unbalanced" /\ Decoded) => codecOut.status = "thrown"

\* C19: safeJsonParse(JSON.stringify(v)) returns v
C19_RoundTrip ==
    (codecIn.class = "object" /\ codecIn.text = codecIn.doc /\ Decoded) =>
       /\ codecOut.status = "returned"
       /\ codecOut.value = codecIn.doc

\* the lessons an image request was sent for
ImageLessons == {<<e.mod, e.lesson>> : e \in imgLog}

\* C20: a stage is declared failed only after its call was attempted again:
\* a failed outline stage has sent maxRetries outline requests, a failed
\* module stage as many for its module, and a lesson whose image call failed
\* got a further image request before its module was yielded
C20_EveryCallRetried ==
    /\ (OutlineFailed /\ failure.cause # "no modules") =>
          nRequests["outline"] = DefaultMaxRetries
    /\ ModuleFailed => nRequests["module"] >= (i - 1) + DefaultMaxRetries
    /\ \A e \in imgLog :
          (~e.ok /\ \E n \in ModuleDone : updates[n].mod = e.mod) =>
             nRequests["image"] > Cardinality(ImageLessons)

\* C21: the sources of every yielded outline hold no url twice, and they are
\* the web uris of the grounding chunks of some response
C21_SourcesDeduplicated ==
    \A n \in OutlineDone :
       LET s == updates[n].payload.sources IN
       /\ \A a, b \in 1..Len(s) : s[a] = s[b] => a = b
       /\ \E chunks \in GroundingChunkLists : Range(s) = Range(chunks) \ {Absent}

\* C22: the max_tokens of every module request of the OpenRouter adapter is
\* strictly less than the maxOutputTokens of the run
C22_ModuleBudgetBelowMax ==
    \A r \in inflight :
       (variant = "OR" /\ r.kind = "module") => r.maxTokens < maxOutputTokens

\* C23: when the catalog fetch rejects, gives a body that is no JSON, or a
\* body without a model array, getAvailableModels has returned a list that is
\* not empty and whose entries all have the provider OpenRouter and a
\* positive maxOutputTokens, and the run has gone on to the outline stage
\* with the maxOutputTokens looked up in it; no run ends by a catalog error
C23_CatalogNeverFails ==
    /\ catalog.outcome \in CatalogFailures =>
          /\ catalog.models # {}
          /\ \A m \in catalog.models :
                m.provider = OpenRouter /\ m.maxOutputTokens > 0
          /\ nRequests["outline"] >= 1
          /\ maxOutputTokens = LookupMaxOutputTokens(catalog.models, modelId)
    /\ pc = "failed" => failure.stage # "catalog"
    /\ (variant = "OR" /\ nRequests["outline"] = 0) =>
          pc \in {"start", "o_begin", "o_models"}

C23_Witness ==
    /\ catalog.outcome = "nonjson"
    /\ pc = "done"
    /\ Len(ModuleDoneSeq) = 2

\* createAIService has settled: it returned an adapter or threw
Created == pc \notin {"create", "import"}

\* C24: with the credentials set, createAIService resolves "gemini" and
\* "openrouter" to an adapter that has the four methods of AIService; for
\* every other identifier it throws 'Unsupported AI provider' and no adapter
\* constructor was entered
C24_FactoryResolves ==
    (Created /\ apiKeys.API_KEY = "k" /\ apiKeys.OPENROUTER_API_KEY = "k") =>
       IF provider \in {"gemini", "openrouter"}
       THEN /\ service # None
            /\ AIServiceMethods \subseteq service.methods
       ELSE /\ service = None
            /\ pc = "create_failed"
            /\ failure.cause = "Unsupported AI provider"
            /\ nConstructed = 0

\* the credential of the provider createAIService is called with
ProviderKey ==
    IF provider = "gemini" THEN apiKeys.API_KEY ELSE apiKeys.OPENROUTER_API_KEY

\* C25: when the key of the provider is not set or empty, createAIService
\* returns no adapter and no outline, module or image request is ever sent
C25_MissingKeyFatal ==
    (provider \in {"gemini", "openrouter"} /\ ~Truthy(ProviderKey)) =>
       /\ service = None
       /\ \A k \in DOMAIN nRequests : nRequests[k] = 0
       /\ ~\E r \in inflight : r.kind \in DOMAIN nRequests

\* the generator is suspended at its start or at a yield and the consumer
\* has not asked for the next update
Suspended == ~demand /\ pc \in {"start", "o_begin", "m_loop", "m_begin", "img_yield"}

\* C26: before the consumer asks for the first update no request is sent;
\* while the consumer does not ask for the next update every step leaves the
\* updates yielded and the requests sent as they are, and at a yield no
\* request is in flight
C26_Abandonment ==
    /\ [](pc = "start" => (inflight = {} /\ nRequests = NoRequests /\ updates = <<>>))
    /\ [](Suspended => inflight = {})
    /\ [][~demand => (updates' = updates /\ nRequests' = nRequests
                        /\ inflight' \subseteq inflight)]_vars

C26_Witness ==
    /\ Suspended
    /\ pc = "img_yield"
    /\ i = 2
    /\ Len(ModuleDoneSeq) = 1

\* C27: no update with step Done or Idle is ever yielded, and when the
\* sequence ends normally the last update yielded is the completed update
\* of the last module
C27_EndsAfterLastModule ==
    /\ \A n \in Positions : updates[n].step \notin {Done, Idle}
    /\ pc = "done" =>
          /\ updates # <<>>
          /\ updates[Len(updates)].step = GeneratingModules
          /\ updates[Len(updates)].hasPayload
          /\ updates[Len(updates)].mod = Len(courseOutline.moduleTitles)

\* retryApiCall is running for the outline stage or for a module stage of
\* the OpenRouter adapter
InStage == variant = "OR" /\ rCtx \in {"outline", "module"}

\* C28: while a stage of the OpenRouter adapter runs, it has sent at most 3
\* requests, one per attempt, and every attempt that settled has failed,
\* by a network error, an empty response or an unparseable one alike; the
\* stage ends with its completed update in the step in which an attempt
\* succeeds, whichever attempt it is, and it ends with a stage failure only
\* in the step in which the third attempt fails after two failed ones
C28_SharedRetryBudget ==
    /\ [](InStage =>
            /\ Len(rCalls) <= DefaultMaxRetries
            /\ rCalls = [n \in 1..Len(rCalls) |-> n]
            /\ attempt = Len(rCalls)
            /\ Len(rSettled) = Len(rCalls) - Cardinality(TextInflight)
            /\ AllFailed
            /\ (rSettled # <<>>) => lastError.cause \in {"network", "empty", "parse"})
    /\ [](variant = "OR" => nRequests["outline"] <= DefaultMaxRetries)
    /\ [][(InStage /\ rCtx' = "none") =>
            /\ pc = "r_op"
            /\ IF pc' = "failed"
               THEN /\ rCalls = <<1, 2, 3>>
                    /\ rSettled = <<FALSE, FALSE>>
                    /\ failure'.stage = rCtx
                    /\ updates' = updates
               ELSE /\ Len(rSettled) = Len(rCalls) - 1
                    /\ Len(updates') = Len(updates) + 1
                    /\ updates'[Len(updates')].hasPayload
                    /\ updates'[Len(updates')].step =
                          (IF rCtx = "outline" THEN Outlining ELSE GeneratingModules)]_vars

C28_Witness ==
    /\ variant = "OR"
    /\ OutlineFailed
    /\ nEmptyOutline = 1
    /\ nRequests["outline"] = 3

\* C29: a call of safeJsonParse has parsed at most twice and has sent no
\* request; when it threw, both parses were made and the error carries the
\* context label of the call and the bounded previews of the raw and of the
\* cleaned text
C29_TwoParsesThenError ==
    Decoded =>
       /\ codecOut.attempts <= 2
       /\ nRequests = NoRequests /\ inflight = {}
       /\ codecOut.status = "thrown" =>
             /\ codecOut.attempts = 2
             /\ codecOut.error.context = codecIn.context
             /\ codecOut.error.previews =
                   <<Preview(codecIn.text), Preview(cleanJson(codecIn.text))>>

\* the updates of the outline stage and of the module stages, in order
Framed ==
    SelectSeq(updates, LAMBDA u : u.step \in {Outlining, GeneratingModules})

\* C30: leaving the GeneratingImages updates aside, the updates come in
\* pairs: a starting update without payload, then the completed update with
\* payload of the same stage; the first pair is the outline's and the n-th
\* pair after it is that of module n, so no stage starts before the one
\* before it has completed
C30_StartCompletedFraming ==
    \A n \in 1..Len(Framed) :
       /\ Framed[n].step = (IF n <= 2 THEN Outlining ELSE GeneratingModules)
       /\ Framed[n].mod = (n - 1) \div 2
       /\ Framed[n].hasPayload = (n % 2 = 0)
       /\ (n % 2 = 0) =>
             /\ Framed[n - 1].step = Framed[n].step
             /\ Framed[n - 1].mod = Framed[n].mod
             /\ ~Framed[n - 1].hasPayload

C30_Witness ==
    /\ pc = "done"
    /\ Len(Framed) = 6
    /\ ImageUpdates # {}
    /\ Len(updates) > Len(Framed)


\* C31: with image generation enabled, in the adapters that generate images
\* (geminiService.ts, part_001), every completed module has for each lesson
\* with a non-blank imagePrompt exactly one GeneratingImages update naming
\* that lesson and exactly one image request, in lesson order, between the
\* module's starting and completed update; the other lessons have neither
ImageUpdatesOf(m, l) ==
    {k \in ImageUpdates : updates[k].mod = m /\ updates[k].lesson = l}

C31_ImageUpdatePerLesson ==
    (generateImages /\ variant \in {"GS", "P1"}) =>
       \A n \in ModuleDone :
          LET m == updates[n].mod
              lessons == updates[n].payload.lessons
          IN  /\ \A l \in 1..Len(lessons) :
                    IF HasImagePrompt(lessons[l])
                    THEN /\ Cardinality(ImageUpdatesOf(m, l)) = 1
                         /\ Cardinality({e \in imgLog : e.mod = m /\ e.lesson = l}) = 1
                         /\ \A k \in ImageUpdatesOf(m, l) :
                               /\ k < n
                               /\ \E s \in ModuleUpdates :
                                     /\ s < k
                                     /\ updates[s].mod = m
                                     /\ ~updates[s].hasPayload
                    ELSE /\ ImageUpdatesOf(m, l) = {}
                         /\ ~\E e \in imgLog : e.mod = m /\ e.lesson = l
              /\ \A k1, k2 \in ImageUpdates :
                    (updates[k1].mod = m /\ updates[k2].mod = m /\ k1 < k2) =>
                       updates[k1].lesson < updates[k2].lesson

\* the vendor-family patterns in the order they are tried: an id matches an
\* entry when it contains every fragment of it
FamilyPatterns ==
    <<[all |-> {"claude", "3.5"}, limit |-> 8192],
      [all |-> {"claude"}, limit |-> 4096],
      [all |-> {"gpt-4o"}, limit |-> 16384],
      [all |-> {"gpt-5"}, limit |-> 16384],
      [all |-> {"gpt-4"}, limit |-> 8192],
      [all |-> {"gemini"}, limit |-> 32768],
      [all |-> {"llama"}, limit |-> 32768],
      [all |-> {"mistral"}, limit |-> 32768]>>

MatchingPatterns(id) ==
    {n \in 1..Len(FamilyPatterns) :
        \A frag \in FamilyPatterns[n].all : includes(id, frag)}

\* C32: getMaxOutputTokens gives the table's value for an id of the table,
\* else the value of the first family pattern the id matches, else a
\* quarter of the context length clamped to 8192..32768; the result is
\* always a positive integer
C32_TokenResolution ==
    pc \in {"budget", "budget_done"} =>
       LET id == tokIn.id
           r == tokOut.maxOutputTokens
           matching == MatchingPatterns(id)
           quarter == tokIn.contextLength \div 4
       IN  /\ r \in Nat /\ r > 0
           /\ id \in DOMAIN modelLimits => r = modelLimits[id]
           /\ (id \notin DOMAIN modelLimits /\ matching # {}) =>
                 r = FamilyPatterns[CHOOSE n \in matching :
                                       \A k \in matching : n <= k].limit
           /\ (id \notin DOMAIN modelLimits /\ matching = {}) =>
                 /\ r \in 8192..32768
                 /\ quarter \in 8192..32768 => r = quarter
                 /\ quarter < 8192 => r = 8192
                 /\ quarter > 32768 => r = 32768

C32_Witness ==
    /\ pc = "budget"
    /\ tokIn.id \notin DOMAIN modelLimits
    /\ includes(tokIn.id, "gpt-4o")
    /\ includes(tokIn.id, "gpt-4")
    /\ tokOut.maxOutputTokens = 16384

\* C33: the outline budget is at most 4000, at most half of maxOutputTokens,
\* and strictly below the module budget taken from the same maxOutputTokens
C33_OutlineBudget ==
    pc = "budget_done" =>
       /\ tokOut.outline <= 4000
       /\ 2 * tokOut.outline <= tokOut.maxOutputTokens
       /\ tokOut.outline < tokOut.module

C33_Witness ==
    /\ pc = "budget_done"
    /\ tokOut.maxOutputTokens = 128000
    /\ tokOut.outline = 4000
    /\ tokOut.module > tokOut.outline

\* the positions of the catalog whose model is retained: a context of at
\* least 32000 and an id of none of the families left out
ExcludedFamily(id) ==
    \E word \in {"vision", "whisper", "embedding"} : includes(id, word)
Retained ==
    {k \in 1..Len(catIn) :
        catIn[k].context_length >= 32000 /\ ~ExcludedFamily(catIn[k].id)}
\* the position in the catalog of the n-th retained model, for n up to max
RetainedPositions(max) ==
    LET retained == Retained
        rank == [k \in retained |-> Cardinality({e \in retained : e <= k})]
    IN  [n \in 1..max |-> CHOOSE k \in retained : rank[k] = n]

\* C34: on a successful fetch the list has at most 25 models, none with a
\* context below 32000 or an id of an excluded family, and its models are
\* the retained models of the catalog in the catalog's order
C34_ListFiltered ==
    pc = "catalog_done" =>
       /\ Len(catOut) <= 25
       /\ Len(catOut) <= Cardinality(Retained)
       /\ LET at == RetainedPositions(Len(catOut))
          IN  \A n \in 1..Len(catOut) :
                 /\ catOut[n].contextLength >= 32000
                 /\ ~ExcludedFamily(catOut[n].id)
                 /\ catOut[n].id = catIn[at[n]].id
                 /\ catOut[n].contextLength = catIn[at[n]].context_length

C34_Witness ==
    /\ pc = "catalog_done"
    /\ Len(catOut) = 25
    /\ Cardinality(Retained) > 25
    /\ \E k \in 1..Len(catIn) : k < RetainedPositions(25)[25] /\ k \notin Retained

\* C35: the progress shown while a run is generating is 20 for a completed
\* outline plus 80 times completedModules / totalModules: 0 before the
\* outline completes, never above 100, and 100 exactly when the outline and
\* all modules have completed
C35_Progress ==
    app.isGenerating =>
       /\ ~app.outlineComplete => Progress.num = 0
       /\ (app.outlineComplete /\ app.totalModules > 0) =>
             Progress.num = 20 * app.totalModules + 80 * app.completedModules
       /\ Progress.num <= 100 * Progress.den
       /\ Progress.num = 100 * Progress.den <=>
             (app.outlineComplete /\ app.completedModules = app.totalModules)

\* C36: when the sequence ends with an error after modules were streamed,
\* the caller keeps those modules available, marks the last log entry with
\* the error and ends the run
C36_PartialKept ==
    (run.phase = "left" /\ pc = "failed" /\ run.tempModules # <<>>) =>
       /\ ~app.isGenerating
       /\ app.generationLog # <<>>
       /\ app.generationLog[Len(app.generationLog)].message = ErrorMessage(failure)
       /\ app.course # None
       /\ app.course.modules = run.tempModules

Consumed ==
    IF run.phase = "loop" /\ ~demand /\ pc \notin {"done", "failed"}
    THEN Len(updates) - 1
    ELSE Len(updates)
ConsumedStarts ==
    {n \in 1..Consumed :
        updates[n].step \in {Outlining, GeneratingModules} /\ ~updates[n].hasPayload}

C37_BaseSchemaUntouched ==
    pc = "schema" =>
       /\ heap[BaseRef] = BaseModuleSchema
       /\ \A k \in 1..Len(schemas) :
             ~schemas[k].includeImages =>
                /\ "imagePrompt" \notin schemas[k].schema.properties
                /\ "imagePrompt" \notin Range(schemas[k].schema.required)

\* C38: when every upstream call settles, a run of the OpenRouter adapter
\* ends, exhausted or with an error, and up to then it has sent at most 3
\* outline requests and at most 3 requests for each module title of the
\* outline, so at most 3 * (k + 1) text requests for k titles; no stage
\* makes more than 3 attempts
C38_Termination ==
    /\ <>RunOver
    /\ [](nRequests["outline"] <= 3)
    /\ [](Len(rCalls) <= 3)
    /\ [](LET k == IF courseOutline = None THEN 0
                   ELSE Len(courseOutline.moduleTitles)
          IN  /\ nRequests["module"] <= 3 * k
              /\ nRequests["outline"] + nRequests["module"] <= 3 * (k + 1))

C38_Witness ==
    /\ pc = "done"
    /\ nRequests["outline"] = 3
    /\ Len(courseOutline.moduleTitles) = 2
    /\ nRequests["module"] = 6

====
